---- MODULE Spec2Model ----
(***************************************************************************)
(* The coordination core of mlat-server: the receiver registry of          *)
(* src/mlat/server/coordinator.py (Receiver, Coordinator) and the aircraft *)
(* registry and interest selector of src/mlat/tracker.py (TrackedAircraft, *)
(* Tracker).                                                               *)
(*                                                                         *)
(* Python objects are modelled as cells of two heaps: rcv (Receiver        *)
(* objects, addressed by RIDs) and acs (TrackedAircraft objects, addressed *)
(* by AIDs).  A set of objects in the source is a set of addresses here,   *)
(* so an aircraft object that was deleted from the registry but is still   *)
(* referenced by a receiver, and a dead receiver that is still referenced  *)
(* by an aircraft, are distinct from the objects created later under the   *)
(* same ICAO address or uid.  Cells no live object references are          *)
(* reclaimed (CPython frees them) and reused.                              *)
(*                                                                         *)
(* Reals: bad_syncs is a Python float, an IEEE 754 double, kept bit for    *)
(* bit: its magnitude is counted in units of 2^-56 in three limbs of 20    *)
(* bits, and every operation rounds to 53 significant bits, to nearest,    *)
(* ties to even.  That is exact for the doubles of magnitude 0 or from     *)
(* 1/16 to 16, which covers the scores, the decay 0.1 and the penalties    *)
(* of dumps of fewer than 180 peers.  recent_clock_jumps, whose steps 1    *)
(* and 0.5 are exact in a double, is counted in units of 1/Scale; message  *)
(* rates in units of 0.05/s; rate products in units of 1/900; clock        *)
(* offsets in units of 0.5 microseconds.  Time is in whole seconds: two    *)
(* calls at the same value of now are less than 0.1 s apart.               *)
(***************************************************************************)
EXTENDS Integers, Sequences, FiniteSets, TLC

\* ------------------------------------------------------------------ bounds
MaxReceivers == 3   \* Receiver objects that exist at once (live, or dead and still referenced)
MaxAircraft == 5    \* TrackedAircraft objects that exist at once
MaxIcao == 5        \* ICAO addresses 1..MaxIcao
MaxUser == 3        \* user names 1..MaxUser
MaxPos == 1         \* receiver positions 0..MaxPos
MaxHandlers == 3    \* entries of Coordinator.sighup_handlers
MaxQueue == 2       \* callbacks pending on the event loop
MaxElapsed == 90    \* seconds a run lasts
MaxPairJumps == 3   \* incrementJumps calls for a receiver between two scorer passes
MaxClockResets == 3 \* clock resets of a receiver
\* The uid counter wraps above 4611686018427387904 = 2^62 (coordinator.py 425).
\* The counter moves by one each time it meets a uid in use, so the wrap takes
\* 2^62 such meetings; the model wraps above MaxUid to make the wrap reachable.
MaxUid == 1

RIDs == 1..MaxReceivers
AIDs == 1..MaxAircraft
ICAOs == 1..MaxIcao
Users == 1..MaxUser
Positions == 0..MaxPos

\* --------------------------------------------------------------- constants
\* config.MAX_SYNC_AC and config.MAX_SYNC_RATE are read from mlat.config, which
\* sets them per deployment; the model takes a small configuration.
MAX_SYNC_AC == 4
\* in rate units of 0.05/s
MAX_SYNC_RATE == 40
FORCE_MLAT_INTERVAL == 600
NO_ADSB_MLAT_SECONDS == 120
\* one unit of recent_clock_jumps is 1/Scale
Scale == 110
\* asyncio.sleep(15.0) of the state writer
WRITE_STATE_INTERVAL == 15
\* time.time() at start-up, seconds
StartTime == 1000

VARIABLES
    receivers,       \* Coordinator.receivers: uid -> Receiver
    usernames,       \* Coordinator.usernames: user -> Receiver
    uidCounter,      \* Coordinator.uidCounter
    rcv,             \* the Receiver objects
    aircraft,        \* Tracker.aircraft: icao -> TrackedAircraft
    acs,             \* the TrackedAircraft objects
    mlat_wanted,     \* Tracker.mlat_wanted
    mlat_wanted_ts,  \* Tracker.mlat_wanted_ts
    call_soon,       \* the event loop's queue of refresh_traffic_requests callbacks
    now,             \* time.time()
    write_state_at,  \* when the state writer's sleep ends
    write_state_task,  \* the state writer's task: "running" or "cancelled"
    files,           \* work_dir: path -> what the file holds
    sighup_handlers, \* Coordinator.sighup_handlers
    signal_handlers, \* the signals the event loop has a handler for
    uid_log,         \* history: the uids new_receiver has returned, and the latest of them
    ret              \* the call that ran last, and its outcome

vars == <<receivers, usernames, uidCounter, rcv, aircraft, acs, mlat_wanted,
          mlat_wanted_ts, call_soon, now, write_state_at, write_state_task, files,
          sighup_handlers, signal_handlers, uid_log, ret>>

\* ------------------------------------------------------------ dict helpers
EmptyDict == [k \in {} |-> 0]
Values(d) == {d[k] : k \in DOMAIN d}
Put(d, k, v) == [x \in (DOMAIN d) \cup {k} |-> IF x = k THEN v ELSE d[x]]
Pop(d, k) == [x \in (DOMAIN d) \ {k} |-> d[x]]
Min(S) == CHOOSE x \in S : \A y \in S : x <= y
Max(S) == CHOOSE x \in S : \A y \in S : x >= y
Abs(x) == IF x < 0 THEN -x ELSE x

\* ------------------------------------------------------------ floats
\* 2^20
Limb == 1048576
Pow2(n) == 2 ^ n
\* the bits of n, 0 <= n < 2^30
BitLength(n) == CHOOSE k \in 0..30 : Pow2(k) > n /\ (k = 0 \/ Pow2(k - 1) <= n)

\* the magnitude <<h, m, l>> is h * 2^40 + m * 2^20 + l, in units of 2^-56
mag_less(a, b) ==
    \/ a[1] < b[1]
    \/ a[1] = b[1] /\ a[2] < b[2]
    \/ a[1] = b[1] /\ a[2] = b[2] /\ a[3] < b[3]
mag_add(a, b) ==
    LET l == a[3] + b[3]
        m == a[2] + b[2] + l \div Limb
    IN <<a[1] + b[1] + m \div Limb, m % Limb, l % Limb>>
mag_sub(a, b) ==
    LET l == a[3] - b[3]
        m == a[2] - b[2] - (IF l < 0 THEN 1 ELSE 0)
    IN <<a[1] - b[1] - (IF m < 0 THEN 1 ELSE 0), m % Limb, l % Limb>>
\* a without its lowest drop bits, rounded to nearest, ties to even; rem/den
\* is what the magnitude leaves out, 0 <= rem < den
mag_round_bits(a, rem, den, drop) ==
    LET unit == Pow2(drop)
        low == a[3] % unit
        odd == (a[3] \div unit) % 2 = 1
        up == IF drop = 0 THEN 2 * rem > den \/ (2 * rem = den /\ odd)
              ELSE \/ 2 * low > unit
                   \/ 2 * low = unit /\ (rem > 0 \/ odd)
    IN IF up THEN mag_add(<<a[1], a[2], a[3] - low>>, <<0, 0, unit>>)
       ELSE <<a[1], a[2], a[3] - low>>
\* round to 53 significant bits
mag_round(a, rem, den) ==
    CHOOSE r \in {mag_round_bits(v, rem, den, drop) :
                     v \in {a},
                     drop \in {IF BitLength(a[1]) > 13 THEN BitLength(a[1]) - 13 ELSE 0}} : TRUE

\* a float: its sign and its magnitude; there is one zero
float(neg, mag) == [neg |-> neg /\ mag # <<0, 0, 0>>, mag |-> mag]
float_of_int(n) == float(n < 0, <<(IF n < 0 THEN 0 - n ELSE n) * 65536, 0, 0>>)
\* a / b of two positive integers
float_div(a, b) ==
    LET h == a * 65536
        m == (h % b) * Limb
        l == (m % b) * Limb
    IN float(FALSE, mag_round(<<h \div b, m \div b, l \div b>>, l % b, b))
float_add_values(a, b) ==
    IF a.neg = b.neg THEN float(a.neg, mag_round(mag_add(a.mag, b.mag), 0, 1))
    ELSE IF mag_less(a.mag, b.mag) THEN float(b.neg, mag_round(mag_sub(b.mag, a.mag), 0, 1))
    ELSE float(a.neg, mag_round(mag_sub(a.mag, b.mag), 0, 1))
float_add(a, b) == CHOOSE c \in {float_add_values(p, q) : p \in {a}, q \in {b}} : TRUE
float_sub(a, b) == float_add(a, float(~b.neg, b.mag))
float_less_values(a, b) ==
    IF a.neg # b.neg THEN a.neg
    ELSE IF a.neg THEN mag_less(b.mag, a.mag) ELSE mag_less(a.mag, b.mag)
float_less(a, b) == \E p \in {a}, q \in {b} : float_less_values(p, q)
float_min(a, b) == CHOOSE c \in {IF float_less(q, p) THEN q ELSE p : p \in {a}, q \in {b}} : TRUE
float_max(a, b) == CHOOSE c \in {IF float_less(p, q) THEN q ELSE p : p \in {a}, q \in {b}} : TRUE

\* ------------------------------------------------------------ the objects
\* Receiver.__init__; created = FALSE marks a free cell
NewReceiverObject(uid, user, position_llh) ==
    [created |-> TRUE, dead |-> FALSE, uid |-> uid, user |-> user,
     position_llh |-> position_llh, distance |-> EmptyDict,
     has_rate_report |-> FALSE, last_rate_report |-> EmptyDict,
     tracking |-> {}, adsb_seen |-> {}, sync_interest |-> {},
     mlat_interest |-> {}, requested |-> {}, request_traffic |-> {},
     bad_syncs |-> float_of_int(0), recent_pair_jumps |-> 0, recent_clock_jumps |-> 0,
     clock_reset_counter |-> 0]

FreeReceiver == [NewReceiverObject(0, 0, 0) EXCEPT !.created = FALSE]

\* TrackedAircraft.__init__; icao = 0 marks a free cell.  altitude = 0 stands
\* for None (the source tests "is not None and > 0"); altitude k > 0 stands
\* for 20000 * k^2, so that (altitude / 20000) ** 1.5 is k^3.
NewAircraftObject(icao, allow_mlat, last_force_mlat) ==
    [icao |-> icao, allow_mlat |-> allow_mlat,
     tracking |-> {}, sync_interest |-> {}, adsb_seen |-> {}, mlat_interest |-> {},
     last_adsb_time |-> 0, last_force_mlat |-> last_force_mlat, force_mlat |-> FALSE,
     altitude |-> 0, sync_dont_use |-> 0, sync_bad_percent |-> 0, do_mlat |-> FALSE]

FreeAircraft == NewAircraftObject(0, FALSE, 0)

\* geodesy.llh2ecef and geodesy.ecef_distance: positions on a line
llh2ecef(p) == <<1000 * p, 0, 0>>
ecef_distance(a, b) == Abs(a[1] - b[1])

\* --------------------------------------------------- garbage collection
\* A world is the heap and the registries one handler works on.
World == [receivers |-> receivers, usernames |-> usernames, rcv |-> rcv,
          aircraft |-> aircraft, acs |-> acs, mlat_wanted |-> mlat_wanted,
          mlat_wanted_ts |-> mlat_wanted_ts, call_soon |-> call_soon]

\* The objects reachable from the coordinator, the tracker and the event loop.
RECURSIVE Reach(_, _, _, _)
Reach(rc, ac, R, A) ==
    LET R2 == R \cup UNION {ac[a].tracking \cup ac[a].sync_interest
                            \cup ac[a].adsb_seen \cup ac[a].mlat_interest : a \in A}
        A2 == A \cup UNION {rc[r].tracking \cup rc[r].sync_interest \cup rc[r].adsb_seen
                            \cup rc[r].mlat_interest \cup rc[r].requested : r \in R}
    IN IF R2 = R /\ A2 = A THEN [R |-> R, A |-> A] ELSE Reach(rc, ac, R2, A2)

\* lexicographic order of two tuples of the same length
LexLess(k, l) == \E i \in DOMAIN k : k[i] < l[i] /\ \A j \in 1..(i - 1) : k[j] = l[j]

\* The cells renumbered: fr and fa give each cell's new address.
Renumber(w, fr, fa) ==
    LET ro(n) == CHOOSE r \in RIDs : fr[r] = n
        ao(n) == CHOOSE a \in AIDs : fa[a] = n
        A(S) == {fa[a] : a \in S}
        R(S) == {fr[r] : r \in S}
    IN [receivers |-> [u \in DOMAIN w.receivers |-> fr[w.receivers[u]]],
        usernames |-> [u \in DOMAIN w.usernames |-> fr[w.usernames[u]]],
        rcv |-> [n \in RIDs |->
                   [w.rcv[ro(n)] EXCEPT !.tracking = A(@), !.adsb_seen = A(@),
                                        !.sync_interest = A(@), !.mlat_interest = A(@),
                                        !.requested = A(@)]],
        aircraft |-> [i \in DOMAIN w.aircraft |-> fa[w.aircraft[i]]],
        acs |-> [n \in AIDs |->
                   [w.acs[ao(n)] EXCEPT !.tracking = R(@), !.adsb_seen = R(@),
                                        !.sync_interest = R(@), !.mlat_interest = R(@)]],
        mlat_wanted |-> A(w.mlat_wanted),
        mlat_wanted_ts |-> w.mlat_wanted_ts,
        call_soon |-> [i \in DOMAIN w.call_soon |-> fr[w.call_soon[i]]]]

\* The reachable cells of w in a fixed order (live receivers by uid, then the
\* dead ones; registered aircraft by ICAO address, then the unregistered ones),
\* the unreachable cells freed: which cell holds an object means nothing.
Compact(w, live) ==
    LET rkey(r) == IF r \notin live.R THEN <<2, 0, 0>>
                   ELSE <<IF w.rcv[r].dead THEN 1 ELSE 0, w.rcv[r].uid, w.rcv[r].user>>
        akey(a) == IF a \notin live.A THEN <<2, 0>>
                   ELSE <<IF a \in Values(w.aircraft) THEN 0 ELSE 1, w.acs[a].icao>>
        rbefore(x, y) == LexLess(rkey(x), rkey(y)) \/ (rkey(x) = rkey(y) /\ x < y)
        abefore(x, y) == LexLess(akey(x), akey(y)) \/ (akey(x) = akey(y) /\ x < y)
        freed == [w EXCEPT
                    !.rcv = [r \in RIDs |-> IF r \in live.R THEN w.rcv[r] ELSE FreeReceiver],
                    !.acs = [a \in AIDs |-> IF a \in live.A THEN w.acs[a] ELSE FreeAircraft]]
    IN CHOOSE c \in {Renumber(x, fr, fa) :
                        x \in {freed},
                        fr \in {[r \in RIDs |-> 1 + Cardinality({x \in RIDs : rbefore(x, r)})]},
                        fa \in {[a \in AIDs |-> 1 + Cardinality({x \in AIDs : abefore(x, a)})]}} : TRUE

\* Garbage collection: what the coordinator, the tracker and the event loop
\* no longer reach is gone.
Collect(w) ==
    CHOOSE c \in {Compact(x, Reach(x.rcv, x.acs,
                                   Values(x.receivers) \cup {x.call_soon[i] : i \in DOMAIN x.call_soon},
                                   Values(x.aircraft) \cup x.mlat_wanted)) : x \in {w}} : TRUE

\* the handler's effect becomes the next state
Commit(w) ==
    \E c \in {Collect(w)} :
       /\ receivers' = c.receivers
       /\ usernames' = c.usernames
       /\ rcv' = c.rcv
       /\ aircraft' = c.aircraft
       /\ acs' = c.acs
       /\ mlat_wanted' = c.mlat_wanted
       /\ mlat_wanted_ts' = c.mlat_wanted_ts
       /\ call_soon' = c.call_soon

FreeRIDs == {r \in RIDs : ~rcv[r].created}
FreeAIDs(w) == {a \in AIDs : w.acs[a].icao = 0}

\* ------------------------------------------------------- receiver registry
\* the probe as it would be without the test of line 428
ProbeUid_unchecked(counter, used) == counter

\* coordinator.py 425-430: the wrap test and the probe past uids in use
RECURSIVE ProbeUid(_, _)
ProbeUid(counter, used) ==
    IF counter \in used THEN ProbeUid(counter + 1, used) ELSE counter

NextUidCounter(counter, used) ==
    ProbeUid(IF counter > MaxUid THEN 0 ELSE counter, used)

\* Coordinator._compute_interstation_distances(receiver), receiver being cell r
compute_interstation_distances(regs, rc, r) ==
    LET d(o) == IF o = r THEN 0
                ELSE ecef_distance(llh2ecef(rc[r].position_llh), llh2ecef(rc[o].position_llh))
        others == Values(regs)
        mine == [u \in (DOMAIN rc[r].distance) \cup {rc[o].uid : o \in others} |->
                    IF \E o \in others : rc[o].uid = u
                    THEN d(CHOOSE o \in others : rc[o].uid = u)
                    ELSE rc[r].distance[u]]
    IN [x \in RIDs |->
          IF x = r THEN [rc[x] EXCEPT !.distance = mine]
          ELSE IF x \in others THEN [rc[x] EXCEPT !.distance = Put(@, rc[r].uid, d(x))]
          ELSE rc[x]]

\* ------------------------------------------------------- aircraft registry
\* Coordinator.__init__: partition=(1, 1), the index and the count
partition == <<1, 1>>

\* bitwise exclusive or of two 16-bit numbers
RECURSIVE Xor16(_, _)
Xor16(a, b) ==
    IF a = 0 THEN b ELSE IF b = 0 THEN a
    ELSE 2 * Xor16(a \div 2, b \div 2) + (IF a % 2 = b % 2 THEN 0 ELSE 1)

\* A 32-bit number is the pair <<high 16 bits, low 16 bits>>.
\* (h >> 16) ^ h
mix_shift(h) == <<h[1], Xor16(h[2], h[1])>>

\* (h * 0x45d9f3b) & 0xFFFFFFFF; 0x45d9f3b is 1117 * 65536 + 40763
mix_multiply(h) ==
    LET t0 == (h[2] % 256) * 40763
        t1 == (h[2] \div 256) * 40763
        low == (t1 % 256) * 256 + t0
        cross == (h[1] % 256) * 40763 + (((h[1] \div 256) * 40763) % 256) * 256
                 + h[2] * 1117
    IN <<(t1 \div 256 + low \div 65536 + cross) % 65536, low % 65536>>

\* Tracker.in_local_partition, lines 142-145: the mixed address
mix(icao) ==
    mix_shift(mix_multiply(mix_shift(mix_multiply(
        mix_shift(<<icao \div 65536, icao % 65536>>)))))

\* h % partition_count of a 32-bit h
mod32(h, n) == ((h[1] % n) * (65536 % n) + h[2]) % n

\* Tracker.in_local_partition comparing with the partition's index, not its id
in_local_partition_by_index(icao, partition_id, partition_count) ==
    IF partition_count = 1 THEN TRUE
    ELSE mod32(mix(icao), partition_count) = partition_id + 1

\* Tracker.in_local_partition; partition_id is the partition's index less one
in_local_partition(icao, partition_id, partition_count) ==
    IF partition_count = 1 THEN TRUE
    ELSE mod32(mix(icao), partition_count) = partition_id

\* Tracker.add, the ICAOs taken in ascending order; draws[icao] is the
\* last_force_mlat drawn for an aircraft created here (line 63)
RECURSIVE add(_, _, _, _)
add(w, r, icao_set, draws) ==
    IF icao_set = {} THEN w
    ELSE LET icao == Min(icao_set)
             known == icao \in DOMAIN w.aircraft
             a == IF known THEN w.aircraft[icao] ELSE Min(FreeAIDs(w))
             obj == IF known THEN w.acs[a]
                    ELSE NewAircraftObject(icao,
                                           in_local_partition(icao, partition[1] - 1, partition[2]),
                                           draws[icao])
             w2 == [w EXCEPT !.aircraft = Put(@, icao, a),
                             !.acs[a] = [obj EXCEPT !.tracking = @ \cup {r}],
                             !.rcv[r].tracking = @ \cup {a}]
         IN add(w2, r, icao_set \ {icao}, draws)

\* Tracker.remove as it would be without lines 167-168
remove_keeps_untracked(w, r, icao_set) ==
    LET hit == {w.aircraft[i] : i \in icao_set \cap DOMAIN w.aircraft}
    IN [w EXCEPT !.acs = [a \in AIDs |->
                            IF a \in hit THEN [w.acs[a] EXCEPT !.tracking = @ \ {r}]
                            ELSE w.acs[a]],
                 !.rcv[r].tracking = @ \ hit]

\* Tracker.remove as it would be without the test of line 167
remove_unconditional(w, r, icao_set) ==
    LET hit == {w.aircraft[i] : i \in icao_set \cap DOMAIN w.aircraft}
    IN [w EXCEPT !.acs = [a \in AIDs |->
                            IF a \in hit THEN [w.acs[a] EXCEPT !.tracking = @ \ {r}]
                            ELSE w.acs[a]],
                 !.rcv[r].tracking = @ \ hit,
                 !.aircraft = [i \in (DOMAIN w.aircraft) \ icao_set |-> w.aircraft[i]]]

\* Tracker.remove
remove(w, r, icao_set) ==
    LET hit == {w.aircraft[i] : i \in icao_set \cap DOMAIN w.aircraft}
        acs2 == [a \in AIDs |-> IF a \in hit THEN [w.acs[a] EXCEPT !.tracking = @ \ {r}]
                                ELSE w.acs[a]]
        gone == {i \in icao_set \cap DOMAIN w.aircraft : acs2[w.aircraft[i]].tracking = {}}
    IN [w EXCEPT !.acs = acs2,
                 !.rcv[r].tracking = @ \ hit,
                 !.aircraft = [i \in (DOMAIN w.aircraft) \ gone |-> w.aircraft[i]]]

\* Tracker.remove_all
remove_all(w, r) ==
    LET mine == w.rcv[r].tracking
        acs2 == [a \in AIDs |->
                   IF a \in mine
                   THEN [w.acs[a] EXCEPT !.tracking = @ \ {r}, !.sync_interest = @ \ {r},
                                         !.adsb_seen = @ \ {r}, !.mlat_interest = @ \ {r}]
                   ELSE w.acs[a]]
        gone == {acs2[a].icao : a \in {x \in mine : acs2[x].tracking = {}}}
    IN [w EXCEPT !.acs = acs2,
                 !.aircraft = [i \in (DOMAIN w.aircraft) \ gone |-> w.aircraft[i]],
                 !.rcv[r].tracking = {}, !.rcv[r].adsb_seen = {},
                 !.rcv[r].sync_interest = {}, !.rcv[r].mlat_interest = {}]

\* ------------------------------------------------------- interest selector
\* random.sample(population, k), as the set it returns
Samples(population, k) == {T \in SUBSET population : Cardinality(T) = k}

\* round(n / d) of Python 3: to nearest, ties to even
Round(n, d) ==
    LET q == n \div d
        m == n % d
    IN IF 2 * m < d THEN q
       ELSE IF 2 * m > d THEN q + 1
       ELSE IF q % 2 = 0 THEN q ELSE q + 1

\* Receiver.update_interest_sets, lines 92-113: the mirror sets follow the
\* differences between the old and the new sets
commit_interest_sets(w, r, new_sync, new_mlat, new_adsb) ==
    LET me == w.rcv[r]
        mirror(old, new, a, S) ==
            IF a \in new \ old THEN S \cup {r}
            ELSE IF a \in old \ new THEN S \ {r}
            ELSE S
    IN [w EXCEPT
          !.acs = [a \in AIDs |->
                     [w.acs[a] EXCEPT
                        !.adsb_seen = mirror(me.adsb_seen, new_adsb, a, @),
                        !.sync_interest = mirror(me.sync_interest, new_sync, a, @),
                        !.mlat_interest = mirror(me.mlat_interest, new_mlat, a, @)]],
          !.rcv[r].adsb_seen = new_adsb,
          !.rcv[r].sync_interest = new_sync,
          !.rcv[r].mlat_interest = new_mlat]

\* the MLAT set as it would be without lines 88-89
quarantine_mlat_unused(bad_syncs, new_mlat) == new_mlat

\* Receiver.update_interest_sets, lines 88-89
quarantine_mlat(bad_syncs, new_mlat) ==
    IF float_less(float_of_int(0), bad_syncs) THEN {} ELSE new_mlat

\* the sync set as it would be without lines 85-86
quarantine_sync_unused(bad_syncs, new_sync) == {new_sync}

\* Receiver.update_interest_sets, lines 85-86: the sync sets the draw may leave
quarantine_sync(bad_syncs, new_sync) ==
    IF float_less(float_of_int(2), bad_syncs) /\ 4 * Cardinality(new_sync) > MAX_SYNC_AC
    THEN Samples(new_sync, Round(MAX_SYNC_AC, 4))
    ELSE {new_sync}

\* Receiver.update_interest_sets: the worlds it may leave, one per draw
update_interest_sets(w, r, new_sync, new_mlat, new_adsb) ==
    {commit_interest_sets(w, r, s, quarantine_mlat(w.rcv[r].bad_syncs, new_mlat), new_adsb) :
        s \in quarantine_sync(w.rcv[r].bad_syncs, new_sync)}

\* lines 204-206 as they would be without "since_force < FORCE_MLAT_INTERVAL"
wants_mlat_until_reset(ac, t) ==
    /\ Cardinality(ac.tracking) >= 2
    /\ ac.allow_mlat
    /\ \/ t - ac.last_adsb_time > NO_ADSB_MLAT_SECONDS
       \/ ac.sync_bad_percent > 10
       \/ t - ac.last_force_mlat > FORCE_MLAT_INTERVAL - 15

\* Tracker.update_interest, lines 204-206
wants_mlat(ac, t) ==
    LET since_force == t - ac.last_force_mlat
    IN /\ Cardinality(ac.tracking) >= 2
       /\ ac.allow_mlat
       /\ \/ t - ac.last_adsb_time > NO_ADSB_MLAT_SECONDS
          \/ ac.sync_bad_percent > 10
          \/ (since_force > FORCE_MLAT_INTERVAL - 15 /\ since_force < FORCE_MLAT_INTERVAL)

\* lines 195-210 as they would be without line 202
refresh_aircraft_stays_forced(ac, t) ==
    LET since_force == t - ac.last_force_mlat
    IN [ac EXCEPT !.force_mlat = @ \/ since_force > FORCE_MLAT_INTERVAL - 15,
                  !.last_force_mlat = IF since_force > FORCE_MLAT_INTERVAL + 15 THEN t ELSE @,
                  !.do_mlat = wants_mlat(ac, t)]

\* Tracker.update_interest, lines 195-210, for one aircraft; random.random()
\* of line 201 is taken as 0
refresh_aircraft(ac, t) ==
    LET since_force == t - ac.last_force_mlat
        raised == IF ~ac.force_mlat /\ since_force > FORCE_MLAT_INTERVAL - 15
                  THEN TRUE ELSE ac.force_mlat
        expired == since_force > FORCE_MLAT_INTERVAL + 15
    IN [ac EXCEPT !.force_mlat = IF expired THEN FALSE ELSE raised,
                  !.last_force_mlat = IF expired THEN t ELSE @,
                  !.do_mlat = wants_mlat(ac, t)]

\* Tracker.update_interest, lines 192-212: the throttled MLAT-wanted refresh
\* ("now - mlat_wanted_ts > 0.1" in whole seconds)
refresh_mlat_wanted(w, t) ==
    IF 10 * (t - w.mlat_wanted_ts) > 1
    THEN LET registered == Values(w.aircraft)
         IN [w EXCEPT !.mlat_wanted = {a \in registered : wants_mlat(w.acs[a], t)},
                      !.acs = [a \in AIDs |-> IF a \in registered
                                              THEN refresh_aircraft(w.acs[a], t)
                                              ELSE w.acs[a]],
                      !.mlat_wanted_ts = t]
    ELSE w

\* Tracker.update_interest, lines 216-220: the legacy sync sets
legacy_sync(tracking) ==
    IF Cardinality(tracking) > MAX_SYNC_AC THEN Samples(tracking, MAX_SYNC_AC)
    ELSE {tracking}

\* Tracker.update_interest, lines 232-242: the registered aircraft the rate
\* report names (rate_report_set, new_adsb, the keys of ac_to_ratepair_map)
rate_report_set(w, r) ==
    {w.aircraft[icao] : icao \in (DOMAIN w.rcv[r].last_rate_report) \cap (DOMAIN w.aircraft)}

\* lines 244-246, 262-263: altFactor, 1 where the altitude is unknown
alt_factor(altitude) == IF altitude > 0 THEN 1 + altitude * altitude * altitude ELSE 1

\* lines 254-258: the peer's rate for the aircraft; 0.8 is 16 units
peer_rate(peer, icao) ==
    IF ~peer.has_rate_report THEN 16
    ELSE IF icao \in DOMAIN peer.last_rate_report THEN peer.last_rate_report[icao]
    ELSE 0

\* lines 249-269: the rate pairs of one aircraft, rp in units of 1/900
\* ("rp < 0.01" is "rp < 9")
aircraft_rate_pairs(w, r, a) ==
    LET icao == w.acs[a].icao
        rate == w.rcv[r].last_rate_report[icao]
        rp(r1) == rate * peer_rate(w.rcv[r1], icao) * alt_factor(w.acs[a].altitude)
    IN {[rp |-> rp(r1), r1 |-> r1, ac |-> a, rate |-> rate] :
           r1 \in {x \in w.acs[a].tracking \ {r} : rp(x) >= 9}}

\* the order of the tuples (rp, r1, ac, rate): Receiver.__lt__ compares uids,
\* TrackedAircraft.__lt__ compares ICAO addresses
pair_less(w, p, q) ==
    LET kp == <<p.rp, w.rcv[p.r1].uid, w.acs[p.ac].icao, p.rate>>
        kq == <<q.rp, w.rcv[q.r1].uid, w.acs[q.ac].icao, q.rate>>
    IN \E i \in 1..4 : kp[i] < kq[i] /\ \A j \in 1..(i - 1) : kp[j] = kq[j]

\* line 271: ratepair_list.sort(reverse=True)
RECURSIVE sort_reverse(_, _)
sort_reverse(w, pairs) ==
    IF pairs = {} THEN <<>>
    ELSE LET top == CHOOSE p \in pairs : \A q \in pairs : ~pair_less(w, p, q)
         IN <<top>> \o sort_reverse(w, pairs \ {top})

\* line 275: the orders random.shuffle may leave
Shuffles(seq) ==
    {[i \in 1..Len(seq) |-> seq[f[i]]] :
        f \in {g \in [1..Len(seq) -> 1..Len(seq)] :
                 \A i, j \in 1..Len(seq) : g[i] = g[j] => i = j}}

\* lines 282-299 and 302-317: one selection round over the list from index i;
\* st is (new_sync, total_rate, ntotal); first: skip aircraft with sync_dont_use;
\* limit is 0.3 or 3.5 in units of 1/900
RECURSIVE select_round(_, _, _, _, _, _, _)
select_round(w, r, list, i, st, first, limit) ==
    IF i > Len(list) THEN st
    ELSE LET p == list[i]
         IN IF p.ac \in st.new_sync THEN select_round(w, r, list, i + 1, st, first, limit)
            ELSE IF first /\ w.acs[p.ac].sync_dont_use # 0
                 THEN select_round(w, r, list, i + 1, st, first, limit)
            ELSE IF st.total_rate > MAX_SYNC_RATE THEN st
            ELSE IF st.ntotal[p.r1] < limit
                 THEN LET mine == aircraft_rate_pairs(w, r, p.ac)
                          st2 == [new_sync |-> st.new_sync \cup {p.ac},
                                  total_rate |-> st.total_rate + p.rate,
                                  ntotal |-> [x \in RIDs |->
                                                IF \E q \in mine : q.r1 = x
                                                THEN st.ntotal[x]
                                                     + (CHOOSE q \in mine : q.r1 = x).rp
                                                ELSE st.ntotal[x]]]
                      IN select_round(w, r, list, i + 1, st2, first, limit)
            ELSE select_round(w, r, list, i + 1, st, first, limit)

\* the selection as it would be without lines 319-327
top_up_none(new_sync, keys, tracking) == {new_sync}

\* lines 319-327: the top-up to int(MAX_SYNC_AC / 4), first from the aircraft
\* of the rate report, then from the tracking set
top_up(new_sync, keys, tracking) ==
    LET want == MAX_SYNC_AC \div 4
        fill(chosen, available) ==
            LET addSome == want - Cardinality(chosen)
                k == IF Cardinality(available \ chosen) < addSome
                     THEN Cardinality(available \ chosen) ELSE addSome
            IN {chosen \cup T : T \in Samples(available \ chosen, k)}
    IN IF want - Cardinality(new_sync) > 0
       THEN UNION {IF want - Cardinality(s1) > 0 THEN fill(s1, tracking) ELSE {s1} :
                      s1 \in fill(new_sync, keys)}
       ELSE {new_sync}

\* Tracker.update_interest, lines 229-327: the sync sets the rate-aware
\* selection may hand to the commit
rate_aware_sync(w, r) ==
    LET keys == rate_report_set(w, r)
        ratepair_list == sort_reverse(w, UNION {aircraft_rate_pairs(w, r, a) : a \in keys})
        splitIndex == Len(ratepair_list) \div 2
        start == [new_sync |-> {}, total_rate |-> 0, ntotal |-> [x \in RIDs |-> 0]]
        after(firstHalf) ==
            select_round(w, r, ratepair_list, 1,
                         select_round(w, r, firstHalf, 1, start, TRUE, 270),
                         FALSE, 3150)
    IN UNION {top_up(after(firstHalf).new_sync, keys, w.rcv[r].tracking) :
                 firstHalf \in Shuffles(SubSeq(ratepair_list, 1, splitIndex))}

\* line 214 as it would be without the intersection with receiver.tracking
tracked_mlat_wanted_all(tracking, wanted) == wanted

\* line 214: receiver.tracking.intersection(self.mlat_wanted)
tracked_mlat_wanted(tracking, wanted) == tracking \cap wanted

\* update_interest as it would be without lines 223 and 333
call_soon_dropped(w, r) == w

\* lines 223 and 333: self.loop.call_soon(receiver.refresh_traffic_requests)
call_soon_refresh(w, r) == [w EXCEPT !.call_soon = Append(@, r)]

\* Tracker.update_interest: the worlds it may leave
update_interest(w, r, t) ==
    LET w1 == refresh_mlat_wanted(w, t)
        me == w1.rcv[r]
        new_mlat == tracked_mlat_wanted(me.tracking, w1.mlat_wanted)
        new_adsb == IF me.has_rate_report THEN rate_report_set(w1, r) ELSE {}
        syncs == IF me.has_rate_report THEN rate_aware_sync(w1, r)
                 ELSE legacy_sync(me.tracking)
    IN UNION {{call_soon_refresh(w2, r) :
                  w2 \in update_interest_sets(w1, r, new_sync, new_mlat, new_adsb)} :
                 new_sync \in syncs}

\* ------------------------------------------------------ quarantine scorer
\* A peer's state as the clock tracker dumps it is the tuple (pairing sync
\* count, offset, drift, bad_syncs, jumped): state[0] .. state[4] of the
\* source are state[1] .. state[5] here.

\* num_peers as it would be if line 286 started the count at 1
num_peers_from_one(peers) == 1 + Cardinality({i \in DOMAIN peers : ~(peers[i][4] > 0)})

\* _really_write_state, lines 286-298: ten, and the peers that are not timed out
num_peers(peers) == 10 + Cardinality({i \in DOMAIN peers : ~(peers[i][4] > 0)})

\* lines 295-300: the counted peers with a bad sync (offset over 1.5, over 4)
bad_peers(peers) ==
    Cardinality({i \in DOMAIN peers :
                    /\ ~(peers[i][4] > 0)
                    /\ (peers[i][1] > 5 /\ peers[i][2] > 3) \/ peers[i][2] > 8})

\* lines 306-309: the penalty or the decay
scored_bad_syncs(bad_syncs, peers) ==
    CHOOSE scored \in
       {IF bad > 5 \/ float_less(float_div(1, 10), float_div(bad, num))
        THEN float_add(bad_syncs, float_min(float_of_int(1), float_div(2 * bad, num)))
        ELSE float_sub(bad_syncs, float_div(1, 10)) :
           bad \in {bad_peers(peers)}, num \in {num_peers(peers)}} : TRUE

\* the score as it would be without the limit of line 317
limit_bad_syncs_unlimited(bad_syncs) == bad_syncs

\* line 317: max(0, min(6, r.bad_syncs))
limit_bad_syncs(bad_syncs) ==
    float_max(float_of_int(0), float_min(float_of_int(6), bad_syncs))

\* lines 281-323, for one receiver
score_receiver(me, peers) ==
    [me EXCEPT !.bad_syncs = limit_bad_syncs(scored_bad_syncs(@, peers)),
               !.recent_clock_jumps = Max({0, @ - Scale \div 2}),
               !.recent_pair_jumps = 0]

\* Receiver.clock_reset: the rest of it notifies the clock tracker and logs
clock_reset(me) == [me EXCEPT !.clock_reset_counter = @ + 1]

\* Receiver.incrementJumps after line 116, sync_peers not 0
incrementJumps(me, sync_peers) ==
    IF 5 * me.recent_pair_jumps > sync_peers
    THEN LET jumped == [me EXCEPT !.recent_clock_jumps = @ + Scale]
         IN clock_reset(IF jumped.recent_clock_jumps > 2 * Scale
                        THEN [jumped EXCEPT !.bad_syncs = float_add(@, float_div(4, 10))]
                        ELSE jumped)
    ELSE me

\* ---------------------------------------------------------------- actions
\* The history of the uids handed out before the counter's first wrap: used,
\* all of them; last, the latest; reused, the latest had been handed out
\* before; down, the latest was not above the one before it.  Nothing is
\* recorded after the first wrap.
NoUidLog == [used |-> {}, last |-> -1, wrapped |-> FALSE, reused |-> FALSE, down |-> FALSE]
LogWrap(log, wraps) == IF log.wrapped \/ wraps THEN [NoUidLog EXCEPT !.wrapped = TRUE] ELSE log
LogUid(log, wraps, uid) ==
    IF log.wrapped \/ wraps THEN [NoUidLog EXCEPT !.wrapped = TRUE]
    ELSE [used |-> log.used \cup {uid}, last |-> uid, wrapped |-> FALSE,
          reused |-> uid \in log.used, down |-> uid <= log.last]

Init ==
    /\ receivers = EmptyDict
    /\ usernames = EmptyDict
    /\ uidCounter = 0
    /\ rcv = [r \in RIDs |-> FreeReceiver]
    /\ aircraft = EmptyDict
    /\ acs = [a \in AIDs |-> FreeAircraft]
    /\ mlat_wanted = {}
    /\ mlat_wanted_ts = StartTime
    /\ call_soon = <<>>
    /\ now = StartTime
    /\ write_state_at = StartTime
    /\ write_state_task = "running"
    /\ files = EmptyDict
    /\ sighup_handlers = <<>>
    /\ signal_handlers = {}
    /\ uid_log = NoUidLog
    /\ ret = [op |-> "init", user |-> 0, result |-> "ok"]

\* new_receiver as it would be with the authenticator called after
\* _compute_interstation_distances (lines 441-442 after line 444)
NewReceiver_auth_after_distances(user, auth_ok, position_llh) ==
    /\ FreeRIDs # {}
    /\ IF user \in DOMAIN usernames
       THEN /\ ret' = [op |-> "new_receiver", user |-> user,
                       result |-> "ValueError: already connected"]
            /\ UNCHANGED <<receivers, usernames, uidCounter, rcv, aircraft, acs,
                           mlat_wanted, mlat_wanted_ts, call_soon, uid_log>>
       ELSE LET counter == NextUidCounter(uidCounter, DOMAIN receivers)
                r == Min(FreeRIDs)
                rc1 == [rcv EXCEPT ![r] = NewReceiverObject(counter, user, position_llh)]
                rc2 == compute_interstation_distances(receivers, rc1, r)
            IN /\ uidCounter' = counter
               /\ IF auth_ok
                  THEN /\ Commit([World EXCEPT !.rcv = rc2,
                                               !.receivers = Put(@, counter, r),
                                               !.usernames = Put(@, user, r)])
                       /\ uid_log' = LogUid(uid_log, uidCounter > MaxUid, counter)
                       /\ ret' = [op |-> "new_receiver", user |-> user, result |-> "ok"]
                  ELSE /\ Commit([World EXCEPT !.rcv = rc2])
                       /\ ret' = [op |-> "new_receiver", user |-> user,
                                  result |-> "ValueError: authenticator"]
                       /\ uid_log' = LogWrap(uid_log, uidCounter > MaxUid)
    /\ UNCHANGED <<now, write_state_at, write_state_task,
                   files, sighup_handlers, signal_handlers>>

\* Coordinator.new_receiver(user, auth, position_llh); auth_ok: the
\* authenticator returns (or there is none), otherwise it raises
NewReceiver(user, auth_ok, position_llh) ==
    /\ FreeRIDs # {}
    /\ IF user \in DOMAIN usernames
       THEN /\ ret' = [op |-> "new_receiver", user |-> user,
                       result |-> "ValueError: already connected"]
            /\ UNCHANGED <<receivers, usernames, uidCounter, rcv, aircraft, acs,
                           mlat_wanted, mlat_wanted_ts, call_soon, uid_log>>
       ELSE LET counter == NextUidCounter(uidCounter, DOMAIN receivers)
                r == Min(FreeRIDs)
                rc1 == [rcv EXCEPT ![r] = NewReceiverObject(counter, user, position_llh)]
                rc2 == compute_interstation_distances(receivers, rc1, r)
            IN /\ uidCounter' = counter
               /\ IF auth_ok
                  THEN /\ Commit([World EXCEPT !.rcv = rc2,
                                               !.receivers = Put(@, counter, r),
                                               !.usernames = Put(@, user, r)])
                       /\ uid_log' = LogUid(uid_log, uidCounter > MaxUid, counter)
                       /\ ret' = [op |-> "new_receiver", user |-> user, result |-> "ok"]
                  ELSE /\ ret' = [op |-> "new_receiver", user |-> user,
                                  result |-> "ValueError: authenticator"]
                       /\ uid_log' = LogWrap(uid_log, uidCounter > MaxUid)
                       /\ UNCHANGED <<receivers, usernames, rcv, aircraft, acs,
                                      mlat_wanted, mlat_wanted_ts, call_soon>>
    /\ UNCHANGED <<now, write_state_at, write_state_task,
                   files, sighup_handlers, signal_handlers>>

\* Coordinator.receiver_location_update
ReceiverLocationUpdate(r, position_llh) ==
    /\ r \in Values(receivers)
    /\ Commit([World EXCEPT !.rcv = compute_interstation_distances(
                    receivers, [rcv EXCEPT ![r].position_llh = position_llh], r)])
    /\ ret' = [op |-> "receiver_location_update", user |-> rcv[r].user, result |-> "ok"]
    /\ UNCHANGED <<uidCounter, now, write_state_at, write_state_task, uid_log,
                   files, sighup_handlers, signal_handlers>>

\* Coordinator.receiver_disconnect
ReceiverDisconnect(r) ==
    /\ r \in Values(receivers)
    /\ LET w1 == remove_all([World EXCEPT !.rcv[r].dead = TRUE], r)
           regs == Pop(w1.receivers, w1.rcv[r].uid)
           w2 == [w1 EXCEPT !.receivers = regs,
                            !.usernames = Pop(@, w1.rcv[r].user),
                            !.rcv = [x \in RIDs |->
                                       IF x \in Values(regs)
                                       THEN [w1.rcv[x] EXCEPT !.distance = Pop(@, w1.rcv[r].uid)]
                                       ELSE w1.rcv[x]]]
       IN Commit(w2)
    /\ ret' = [op |-> "receiver_disconnect", user |-> rcv[r].user, result |-> "ok"]
    /\ UNCHANGED <<uidCounter, now, write_state_at, write_state_task, uid_log,
                   files, sighup_handlers, signal_handlers>>

\* Coordinator.receiver_tracking_add; draws: the last_force_mlat that
\* TrackedAircraft.__init__ draws, time.time() - FORCE_MLAT_INTERVAL * random.random()
ReceiverTrackingAdd(r, icao_set, draws) ==
    /\ r \in Values(receivers)
    /\ Cardinality(icao_set \ DOMAIN aircraft) <= Cardinality(FreeAIDs(World))
    /\ rcv[r].has_rate_report \/ Len(call_soon) < MaxQueue
    /\ \A i \in ICAOs : now - FORCE_MLAT_INTERVAL < draws[i] /\ draws[i] <= now
    /\ LET w1 == add(World, r, icao_set, draws)
       IN \E w2 \in (IF rcv[r].has_rate_report THEN {w1} ELSE update_interest(w1, r, now)) :
             Commit(w2)
    /\ ret' = [op |-> "receiver_tracking_add", user |-> rcv[r].user, result |-> "ok"]
    /\ UNCHANGED <<uidCounter, now, write_state_at, write_state_task, uid_log,
                   files, sighup_handlers, signal_handlers>>

\* Coordinator.receiver_tracking_remove
ReceiverTrackingRemove(r, icao_set) ==
    /\ r \in Values(receivers)
    /\ rcv[r].has_rate_report \/ Len(call_soon) < MaxQueue
    /\ LET w1 == remove(World, r, icao_set)
       IN \E w2 \in (IF rcv[r].has_rate_report THEN {w1} ELSE update_interest(w1, r, now)) :
             Commit(w2)
    /\ ret' = [op |-> "receiver_tracking_remove", user |-> rcv[r].user, result |-> "ok"]
    /\ UNCHANGED <<uidCounter, now, write_state_at, write_state_task, uid_log,
                   files, sighup_handlers, signal_handlers>>

\* Coordinator.receiver_rate_report
ReceiverRateReport(r, report) ==
    /\ r \in Values(receivers)
    /\ Len(call_soon) < MaxQueue
    /\ LET w1 == [World EXCEPT !.rcv[r].has_rate_report = TRUE,
                               !.rcv[r].last_rate_report = report]
       IN \E w2 \in update_interest(w1, r, now) : Commit(w2)
    /\ ret' = [op |-> "receiver_rate_report", user |-> rcv[r].user, result |-> "ok"]
    /\ UNCHANGED <<uidCounter, now, write_state_at, write_state_task, uid_log,
                   files, sighup_handlers, signal_handlers>>

\* line 136: {x.icao for x in self.requested}
icao_set(w, requested) == {w.acs[x].icao : x \in requested}

\* the event loop runs the oldest pending callback: Receiver.refresh_traffic_requests;
\* request_traffic is the icao_set the connection was last asked for
RefreshTrafficRequests ==
    /\ call_soon # <<>>
    /\ LET r == Head(call_soon)
           requested == rcv[r].sync_interest \cup rcv[r].mlat_interest
       IN /\ Commit([World EXCEPT !.rcv[r].requested = requested,
                                  !.rcv[r].request_traffic = icao_set(World, requested),
                                  !.call_soon = Tail(@)])
          /\ ret' = [op |-> "refresh_traffic_requests", user |-> rcv[r].user, result |-> "ok"]
    /\ UNCHANGED <<uidCounter, now, write_state_at, write_state_task, uid_log,
                   files, sighup_handlers, signal_handlers>>

\* ------------------------------------------------------- the state files
\* lines 354-356: the files of work_dir that _really_write_state replaces
StateFiles == <<"sync.json", "locations.json", "aircraft.json">>

\* a path of work_dir: the target (tmprand = 0) or target + '.tmp.' + tmprand
target(name) == <<name, 0>>
tmpfile(name, tmprand) == <<name, tmprand>>

\* what a file holds: the document of the dump pass of time pass, whole or in part
Document(name, pass, complete) == [document |-> name, pass |-> pass, complete |-> complete]

\* the number of file-system steps of one pass: open, dump and close, rename
\* for each of the three files
FileSteps == 9

\* the step as it would be with the document dumped to the target itself
file_step_in_place(fs, t, n) ==
    LET name == StateFiles[(n + 2) \div 3]
        path == target(name)
        others == [q \in (DOMAIN fs) \ {path} |-> fs[q]]
    IN CASE n % 3 = 1 -> others @@ (path :> Document(name, t, FALSE))
         [] n % 3 = 2 -> others @@ (path :> Document(name, t, TRUE))
         [] n % 3 = 0 -> fs

\* the n-th file-system step of the pass of time t (lines 361-381): open(tmpfile,
\* 'w') leaves an empty file, ujson.dump and close leave the whole document,
\* os.rename puts it in the place of the target
file_step(fs, t, n) ==
    LET name == StateFiles[(n + 2) \div 3]
        tmp == tmpfile(name, t)
        others == [q \in (DOMAIN fs) \ {tmp} |-> fs[q]]
    IN CASE n % 3 = 1 -> others @@ (tmp :> Document(name, t, FALSE))
         [] n % 3 = 2 -> others @@ (tmp :> Document(name, t, TRUE))
         [] n % 3 = 0 -> [q \in (DOMAIN others) \cup {target(name)} |->
                            IF q = target(name) THEN fs[tmp] ELSE fs[q]]

\* work_dir after the first n file-system steps of the pass of time t
RECURSIVE dump_files(_, _, _)
dump_files(fs, t, n) ==
    IF n = 0 THEN fs
    ELSE CHOOSE after \in {file_step(before, t, n) : before \in {dump_files(fs, t, n - 1)}} : TRUE

\* Coordinator._really_write_state, the scoring of lines 277-323, run by
\* write_state when its sleep has ended; receiver_states is the clock
\* tracker's dump, user -> the states of the user's peers
ReallyWriteState(receiver_states) ==
    /\ write_state_task = "running"
    /\ now >= write_state_at
    /\ rcv' = [r \in RIDs |->
                 IF r \in Values(receivers)
                 THEN score_receiver(rcv[r],
                                     IF rcv[r].user \in DOMAIN receiver_states
                                     THEN receiver_states[rcv[r].user] ELSE <<>>)
                 ELSE rcv[r]]
    /\ write_state_at' = now + WRITE_STATE_INTERVAL
    /\ files' = dump_files(files, now, FileSteps)
    /\ ret' = [op |-> "write_state", user |-> 0, result |-> "ok", steps |-> FileSteps]
    /\ UNCHANGED <<receivers, usernames, uidCounter, aircraft, acs, mlat_wanted,
                   mlat_wanted_ts, call_soon, now, write_state_task, uid_log,
                   sighup_handlers, signal_handlers>>

\* write_state with the try around the loop instead of inside it: the
\* exception ends the task
WriteStateRaises_and_ends(receiver_states, raised_at) ==
    /\ write_state_task = "running"
    /\ now >= write_state_at
    /\ write_state_task' = "failed"
    /\ ret' = [op |-> "write_state", user |-> 0, result |-> "Exception", steps |-> 0]
    /\ UNCHANGED <<receivers, usernames, uidCounter, rcv, aircraft, acs, mlat_wanted,
                   mlat_wanted_ts, call_soon, now, write_state_at, uid_log,
                   files, sighup_handlers, signal_handlers>>

\* where _really_write_state may raise: 0 is before the scoring (the clock
\* tracker's dump, line 277), n > 0 is in the n-th file-system step
RaisePoints == 0..FileSteps

\* Coordinator.write_state, lines 387-393, when _really_write_state raises an
\* Exception at raised_at: it is logged and the sleep follows.  A step that
\* raises leaves the files as the steps before it left them.
WriteStateRaises(receiver_states, raised_at) ==
    /\ write_state_task = "running"
    /\ now >= write_state_at
    /\ rcv' = [r \in RIDs |->
                 IF raised_at > 0 /\ r \in Values(receivers)
                 THEN score_receiver(rcv[r],
                                     IF rcv[r].user \in DOMAIN receiver_states
                                     THEN receiver_states[rcv[r].user] ELSE <<>>)
                 ELSE rcv[r]]
    /\ write_state_at' = now + WRITE_STATE_INTERVAL
    /\ files' = dump_files(files, now, Max({raised_at - 1, 0}))
    /\ ret' = [op |-> "write_state", user |-> 0, result |-> "Exception logged",
               steps |-> Max({raised_at - 1, 0})]
    /\ UNCHANGED <<receivers, usernames, uidCounter, aircraft, acs, mlat_wanted,
                   mlat_wanted_ts, call_soon, now, write_state_task, uid_log,
                   sighup_handlers, signal_handlers>>

\* Coordinator.close: the task is cancelled; it ends at its sleep, where the
\* CancelledError is raised outside the try
Close ==
    /\ write_state_task = "running"
    /\ write_state_task' = "cancelled"
    /\ ret' = [op |-> "close", user |-> 0, result |-> "ok"]
    /\ UNCHANGED <<receivers, usernames, uidCounter, rcv, aircraft, acs, mlat_wanted,
                   mlat_wanted_ts, call_soon, now, write_state_at, uid_log,
                   files, sighup_handlers, signal_handlers>>

\* ------------------------------------------------------ reload signals
\* list.remove(x): the first x goes
list_remove(l, x) ==
    LET i == Min({k \in DOMAIN l : l[k] = x})
    IN SubSeq(l, 1, i - 1) \o SubSeq(l, i + 1, Len(l))

\* the coordinator's reload callbacks and the loop's signal handlers
Reloads == [sighup_handlers |-> sighup_handlers, signal_handlers |-> signal_handlers,
            raised |-> FALSE]

\* remove_sighup_handler as it would be without lines 217-218
remove_sighup_handler_keeps_signal(c, handler) ==
    IF \A k \in DOMAIN c.sighup_handlers : c.sighup_handlers[k] # handler
    THEN [c EXCEPT !.raised = TRUE]
    ELSE [c EXCEPT !.sighup_handlers = list_remove(@, handler)]

\* Coordinator.remove_sighup_handler; list.remove raises ValueError for a
\* handler that is not in the list
remove_sighup_handler(c, handler) ==
    IF \A k \in DOMAIN c.sighup_handlers : c.sighup_handlers[k] # handler
    THEN [c EXCEPT !.raised = TRUE]
    ELSE LET l == list_remove(c.sighup_handlers, handler)
         IN [c EXCEPT !.sighup_handlers = l,
                      !.signal_handlers = IF l = <<>> THEN @ \ {"SIGHUP"} ELSE @]

\* what a reload callback does when it is called: it returns, it deregisters
\* itself and returns, or it raises
CallbackBehaviours == {"returns", "deregisters itself", "raises"}

\* Coordinator.sighup: the callbacks of the copy of the list are called in
\* turn; an exception of a callback ends the loop
RECURSIVE sighup(_, _, _, _)
sighup(copy, c, behaviour, called) ==
    IF copy = <<>> \/ c.raised THEN [c |-> c, called |-> called]
    ELSE LET handler == Head(copy)
             after == CASE behaviour[handler] = "returns" -> c
                        [] behaviour[handler] = "deregisters itself" ->
                              remove_sighup_handler(c, handler)
                        [] behaviour[handler] = "raises" -> [c EXCEPT !.raised = TRUE]
         IN sighup(Tail(copy), after, behaviour, Append(called, handler))

\* Coordinator.add_sighup_handler
AddSighupHandler(handler) ==
    /\ Len(sighup_handlers) < MaxHandlers
    /\ signal_handlers' = IF sighup_handlers = <<>> THEN signal_handlers \cup {"SIGHUP"}
                          ELSE signal_handlers
    /\ sighup_handlers' = Append(sighup_handlers, handler)
    /\ ret' = [op |-> "add_sighup_handler", user |-> 0, result |-> "ok"]
    /\ UNCHANGED <<receivers, usernames, uidCounter, rcv, aircraft, acs, mlat_wanted,
                   mlat_wanted_ts, call_soon, now, write_state_at, write_state_task,
                   files, uid_log>>

\* Coordinator.remove_sighup_handler
RemoveSighupHandler(handler) ==
    /\ LET c == remove_sighup_handler(Reloads, handler)
       IN /\ sighup_handlers' = c.sighup_handlers
          /\ signal_handlers' = c.signal_handlers
          /\ ret' = [op |-> "remove_sighup_handler", user |-> 0,
                     result |-> IF c.raised THEN "ValueError" ELSE "ok"]
    /\ UNCHANGED <<receivers, usernames, uidCounter, rcv, aircraft, acs, mlat_wanted,
                   mlat_wanted_ts, call_soon, now, write_state_at, write_state_task,
                   files, uid_log>>

\* the event loop runs its SIGHUP handler, Coordinator.sighup
Sighup(behaviour) ==
    /\ "SIGHUP" \in signal_handlers
    /\ LET end == sighup(sighup_handlers, Reloads, behaviour, <<>>)
       IN /\ sighup_handlers' = end.c.sighup_handlers
          /\ signal_handlers' = end.c.signal_handlers
          /\ ret' = [op |-> "sighup", user |-> 0,
                     result |-> IF end.c.raised THEN "Exception" ELSE "ok",
                     registered |-> sighup_handlers, called |-> end.called]
    /\ UNCHANGED <<receivers, usernames, uidCounter, rcv, aircraft, acs, mlat_wanted,
                   mlat_wanted_ts, call_soon, now, write_state_at, write_state_task,
                   files, uid_log>>

\* Receiver.incrementJumps, called by the clock tracker, which keeps
\* sync_peers; sync_peers = 0 raises ZeroDivisionError at line 117
IncrementJumps(r, sync_peers) ==
    /\ r \in Values(receivers)
    /\ rcv[r].recent_pair_jumps < MaxPairJumps
    /\ rcv[r].clock_reset_counter < MaxClockResets
    /\ LET counted == [rcv[r] EXCEPT !.recent_pair_jumps = @ + 1]
       IN IF sync_peers = 0
          THEN /\ rcv' = [rcv EXCEPT ![r] = counted]
               /\ ret' = [op |-> "incrementJumps", user |-> rcv[r].user,
                          result |-> "ZeroDivisionError"]
          ELSE /\ rcv' = [rcv EXCEPT ![r] = incrementJumps(counted, sync_peers)]
               /\ ret' = [op |-> "incrementJumps", user |-> rcv[r].user, result |-> "ok"]
    /\ UNCHANGED <<receivers, usernames, uidCounter, aircraft, acs, mlat_wanted,
                   mlat_wanted_ts, call_soon, now, write_state_at, write_state_task, uid_log,
                   files, sighup_handlers, signal_handlers>>

\* forward_results with the try around the loop instead of inside it: the
\* first exception ends the loop
report_each_until_raise(broadcast, raises) ==
    IF \E i \in 1..Len(broadcast) : broadcast[i] \in raises
    THEN SubSeq(broadcast, 1, CHOOSE i \in 1..Len(broadcast) :
                                 /\ broadcast[i] \in raises
                                 /\ \A j \in 1..(i - 1) : broadcast[j] \notin raises)
    ELSE broadcast

\* Coordinator.forward_results, lines 518-527: the receivers whose
\* report_mlat_position is called, in order; raises: those whose call raises an
\* Exception, which is logged and eaten
RECURSIVE report_each(_, _)
report_each(broadcast, raises) ==
    IF broadcast = <<>> THEN <<>>
    ELSE <<Head(broadcast)>> \o report_each(Tail(broadcast), raises)

\* Coordinator.forward_results; receivers is the sequence in which the loop
\* takes the contributing receivers
ForwardResults(receivers_arg, dof, kalman_valid, raises) ==
    /\ \A i \in 1..Len(receivers_arg) : receivers_arg[i] \in Values(receivers)
    /\ LET reported == IF ~kalman_valid /\ dof < 1 THEN <<>>
                       ELSE report_each(receivers_arg, raises)
       IN ret' = [op |-> "forward_results", user |-> 0, result |-> "ok",
                  receivers |-> [i \in 1..Len(receivers_arg) |-> rcv[receivers_arg[i]].user],
                  reported |-> [i \in 1..Len(reported) |-> rcv[reported[i]].user],
                  raised |-> {rcv[r].user : r \in raises},
                  dof |-> dof, kalman_valid |-> kalman_valid]
    /\ UNCHANGED <<receivers, usernames, uidCounter, rcv, aircraft, acs, mlat_wanted,
                   mlat_wanted_ts, call_soon, now, write_state_at, write_state_task, uid_log,
                   files, sighup_handlers, signal_handlers>>

\* The clock tracker has taken an ADS-B position of a registered aircraft:
\* it writes TrackedAircraft.last_adsb_time.
AdsbPosition(a) ==
    /\ a \in Values(aircraft)
    /\ acs[a].last_adsb_time # now
    /\ acs' = [acs EXCEPT ![a].last_adsb_time = now]
    /\ ret' = [op |-> "adsb_position", user |-> 0, result |-> "ok"]
    /\ UNCHANGED <<receivers, usernames, uidCounter, rcv, aircraft, mlat_wanted,
                   mlat_wanted_ts, call_soon, now, write_state_at, write_state_task, uid_log,
                   files, sighup_handlers, signal_handlers>>

\* The clock tracker has rated the aircraft's synchronization messages: it
\* writes TrackedAircraft.sync_bad_percent.
SyncQuality(a, percent) ==
    /\ a \in Values(aircraft)
    /\ acs[a].sync_bad_percent # percent
    /\ acs' = [acs EXCEPT ![a].sync_bad_percent = percent]
    /\ ret' = [op |-> "sync_quality", user |-> 0, result |-> "ok"]
    /\ UNCHANGED <<receivers, usernames, uidCounter, rcv, aircraft, mlat_wanted,
                   mlat_wanted_ts, call_soon, now, write_state_at, write_state_task, uid_log,
                   files, sighup_handlers, signal_handlers>>

\* time passes
Tick(d) ==
    /\ now + d <= StartTime + MaxElapsed
    /\ now' = now + d
    /\ UNCHANGED <<receivers, usernames, uidCounter, rcv, aircraft, acs, mlat_wanted,
                   mlat_wanted_ts, call_soon, write_state_at, write_state_task, uid_log, ret,
                   files, sighup_handlers, signal_handlers>>

\* the rate reports a receiver may send: rates 0.05/s and 1.5/s
Rates == {1, 30}
RateReports == UNION {[S -> Rates] : S \in SUBSET ICAOs}
\* peer states: in sync; bad (offset 2.0 over more than 5 syncs); far off
\* (offset 5.0); off over few syncs (not counted bad); timed out (not counted)
GoodPeer == <<10, 0, 0, 0, 0>>
BadPeer == <<10, 4, 0, 0, 0>>
FarPeer == <<1, 10, 0, 0, 0>>
NewPeer == <<1, 4, 0, 0, 0>>
OutPeer == <<10, 10, 0, 1, 0>>
PeerList(bad, far, good, new, out) ==
    [i \in 1..bad |-> BadPeer] \o [i \in 1..far |-> FarPeer] \o [i \in 1..good |-> GoodPeer]
    \o [i \in 1..new |-> NewPeer] \o [i \in 1..out |-> OutPeer]
\* what the clock tracker may report of a receiver's peers
PeerReports == {PeerList(0, 0, 0, 0, 0), PeerList(5, 5, 0, 0, 0), PeerList(2, 1, 7, 0, 0),
                PeerList(1, 1, 6, 2, 5), PeerList(6, 0, 6, 0, 0), PeerList(1, 0, 0, 0, 0)}
ReceiverStates == UNION {[S -> PeerReports] : S \in SUBSET Users}
SyncPeers == {0, 1, 10}
\* the values of last_force_mlat a new aircraft may draw
ForceDraws == {StartTime}
TickSteps == {1, WRITE_STATE_INTERVAL}

Next ==
    \/ \E u \in Users, ok \in BOOLEAN, p \in Positions : NewReceiver(u, ok, p)
    \/ \E r \in RIDs, p \in Positions : ReceiverLocationUpdate(r, p)
    \/ \E r \in RIDs : ReceiverDisconnect(r)
    \/ \E r \in RIDs, S \in SUBSET ICAOs, draws \in [ICAOs -> ForceDraws] :
          ReceiverTrackingAdd(r, S, draws)
    \/ \E r \in RIDs, S \in SUBSET ICAOs : ReceiverTrackingRemove(r, S)
    \/ \E r \in RIDs, report \in RateReports : ReceiverRateReport(r, report)
    \/ RefreshTrafficRequests
    \/ \E receiver_states \in ReceiverStates : ReallyWriteState(receiver_states)
    \/ \E r \in RIDs, sync_peers \in SyncPeers : IncrementJumps(r, sync_peers)
    \/ \E d \in TickSteps : Tick(d)

Spec == Init /\ [][Next]_vars
\* ---------------------------------------------------------- the registry
\* The receiver registry on its own: connects (the authenticator accepting or
\* raising), location updates and disconnects.
NextRegistry ==
    \/ \E u \in Users, ok \in BOOLEAN, p \in Positions : NewReceiver(u, ok, p)
    \/ \E r \in RIDs, p \in Positions : ReceiverLocationUpdate(r, p)
    \/ \E r \in RIDs : ReceiverDisconnect(r)

SpecRegistry == Init /\ [][NextRegistry]_vars

\* ---------------------------------------------------- the tracking graph
\* Two users connect, track aircraft and disconnect, neither of them sending
\* rate reports.  A callback passed to call_soon runs before the event loop
\* takes the next message, so a handler starts with the queue empty.
TrackingElapsed == 1
GraphUsers == {1, 2}
TrackingIcaos == {1, 2}
\* TrackedAircraft objects that exist at once in these runs
GraphAircraft == 2
Room(S) ==
    Cardinality({a \in AIDs : acs[a].icao # 0}) + Cardinality(S \ DOMAIN aircraft)
       <= GraphAircraft

TrackingHandlers ==
    \/ \E u \in GraphUsers : NewReceiver(u, TRUE, 0)
    \/ \E r \in RIDs : ReceiverDisconnect(r)
    \/ \E r \in RIDs, S \in SUBSET TrackingIcaos, draws \in [ICAOs -> ForceDraws] :
          Room(S) /\ ReceiverTrackingAdd(r, S, draws)
    \/ \E r \in RIDs, S \in SUBSET TrackingIcaos : ReceiverTrackingRemove(r, S)
    \/ now < StartTime + TrackingElapsed /\ Tick(1)

NextTracking ==
    \/ call_soon = <<>> /\ TrackingHandlers
    \/ RefreshTrafficRequests

SpecTracking == Init /\ [][NextTracking]_vars

\* The same with rate reports, for two Receiver objects and one ICAO address.
GraphIcaos == {1}
GraphReceivers == 2
GraphReports == UNION {[S -> {30}] : S \in SUBSET GraphIcaos}

GraphHandlers ==
    \/ \E u \in GraphUsers :
          /\ Cardinality({r \in RIDs : rcv[r].created}) < GraphReceivers
          /\ NewReceiver(u, TRUE, 0)
    \/ \E r \in RIDs : ReceiverDisconnect(r)
    \/ \E r \in RIDs, S \in SUBSET GraphIcaos, draws \in [ICAOs -> ForceDraws] :
          Room(S) /\ ReceiverTrackingAdd(r, S, draws)
    \/ \E r \in RIDs, S \in SUBSET GraphIcaos : ReceiverTrackingRemove(r, S)
    \/ \E r \in RIDs, report \in GraphReports : ReceiverRateReport(r, report)

NextGraph ==
    \/ call_soon = <<>> /\ GraphHandlers
    \/ RefreshTrafficRequests

SpecGraph == Init /\ [][NextGraph]_vars

\* ------------------------------------------------------------ the scorer
\* The quarantine score of one receiver: it connects, the clock tracker
\* reports jumps, the state writer scores every WRITE_STATE_INTERVAL seconds.
ScoreStates == UNION {[S -> PeerReports] : S \in SUBSET {1}}

NextScore ==
    \/ NewReceiver(1, TRUE, 0)
    \/ \E receiver_states \in ScoreStates : ReallyWriteState(receiver_states)
    \/ \E r \in RIDs, sync_peers \in SyncPeers : IncrementJumps(r, sync_peers)
    \/ Tick(WRITE_STATE_INTERVAL)

SpecScore == Init /\ [][NextScore]_vars
\* ------------------------------------------------------------ quarantine
\* Interest updates, legacy and rate-aware, of two receivers that track one
\* ICAO address, with the scorer and the clock tracker's jump reports for
\* user 1 in between.
QuarantineStates == {[u \in {} |-> <<>>], [u \in {1} |-> PeerList(5, 5, 0, 0, 0)]}

QuarantineHandlers ==
    \/ \E u \in GraphUsers :
          /\ Cardinality({r \in RIDs : rcv[r].created}) < GraphReceivers
          /\ NewReceiver(u, TRUE, 0)
    \/ \E r \in RIDs, S \in SUBSET GraphIcaos, draws \in [ICAOs -> ForceDraws] :
          Room(S) /\ ReceiverTrackingAdd(r, S, draws)
    \/ \E r \in RIDs, report \in GraphReports : ReceiverRateReport(r, report)
    \/ \E receiver_states \in QuarantineStates : ReallyWriteState(receiver_states)
    \/ \E r \in RIDs : rcv[r].user = 1 /\ IncrementJumps(r, 1)
    \/ now < StartTime + TrackingElapsed /\ Tick(1)

NextQuarantine ==
    \/ call_soon = <<>> /\ QuarantineHandlers
    \/ RefreshTrafficRequests

SpecQuarantine == Init /\ [][NextQuarantine]_vars
\* ------------------------------------------------------- sync selection
\* Two receivers and more aircraft than MAX_SYNC_AC: a receiver tracks all of
\* them or none, and reports a rate of 1.5/s for one or of 0.05/s for all.
SyncIcaoSets == {ICAOs}
SyncReports == {[i \in {1} |-> 30], [i \in ICAOs |-> 1]}

SyncHandlers ==
    \/ \E u \in GraphUsers :
          /\ Cardinality({r \in RIDs : rcv[r].created}) < GraphReceivers
          /\ NewReceiver(u, TRUE, 0)
    \/ \E r \in RIDs, S \in SyncIcaoSets, draws \in [ICAOs -> ForceDraws] :
          ReceiverTrackingAdd(r, S, draws)
    \/ \E r \in RIDs, S \in SyncIcaoSets : ReceiverTrackingRemove(r, S)
    \/ \E r \in RIDs, report \in SyncReports : ReceiverRateReport(r, report)
    \/ now < StartTime + TrackingElapsed /\ Tick(1)

NextSync ==
    \/ call_soon = <<>> /\ SyncHandlers
    \/ RefreshTrafficRequests

SpecSync == Init /\ [][NextSync]_vars
\* ------------------------------------------------------------ partitions
\* Tracker.in_local_partition applied to ICAO addresses of every size, for
\* every partition (index, count) up to MaxPartitions.
MaxPartitions == 4
PartitionIcaos == {0, 1, 2, 3, 4, 5, 255, 65535, 65536, 3957828, 4921685, 7654321,
                   10531266, 16777215}

InLocalPartition(icao, index, count) ==
    /\ ret' = [op |-> "in_local_partition", user |-> 0,
               result |-> in_local_partition(icao, index - 1, count),
               icao |-> icao, index |-> index, count |-> count]
    /\ UNCHANGED <<receivers, usernames, uidCounter, rcv, aircraft, acs, mlat_wanted,
                   mlat_wanted_ts, call_soon, now, write_state_at, write_state_task, uid_log,
                   files, sighup_handlers, signal_handlers>>

NextPartition ==
    \E icao \in PartitionIcaos, count \in 1..MaxPartitions :
       \E index \in 1..count : InLocalPartition(icao, index, count)

SpecPartition == Init /\ [][NextPartition]_vars
\* ------------------------------------------------------------ force MLAT
\* Two receivers track one aircraft whose last_force_mlat was drawn ForceAges
\* seconds before the start, while the aircraft has sent ADS-B at the start or
\* not and its synchronization is rated; every update_interest after a tick
\* refreshes mlat_wanted.
ForceAges == {570, 576}
ForceStep == 15
BadPercents == {0, 20}

ForceHandlers ==
    \/ \E u \in GraphUsers :
          /\ Cardinality({r \in RIDs : rcv[r].created}) < GraphReceivers
          /\ NewReceiver(u, TRUE, 0)
    \/ \E r \in RIDs, S \in SUBSET GraphIcaos, age \in ForceAges :
          Room(S) /\ ReceiverTrackingAdd(r, S, [i \in ICAOs |-> StartTime - age])
    \/ \E r \in RIDs, S \in SUBSET GraphIcaos : ReceiverTrackingRemove(r, S)
    \/ \E a \in AIDs : now = StartTime /\ AdsbPosition(a)
    \/ \E a \in AIDs, percent \in BadPercents : SyncQuality(a, percent)
    \/ Tick(ForceStep)

NextForce ==
    \/ call_soon = <<>> /\ ForceHandlers
    \/ RefreshTrafficRequests

SpecForce == Init /\ [][NextForce]_vars
\* ------------------------------------------------------- result forwarding
\* Receivers connect; the MLAT tracker forwards results to any of them, in
\* any order, with any of the reports raising.
Orders(S) ==
    {f \in [1..Cardinality(S) -> S] : \A i, j \in 1..Cardinality(S) : f[i] = f[j] => i = j}
Dofs == {0, 1}

NextForward ==
    \/ \E u \in Users : NewReceiver(u, TRUE, 0)
    \/ \E S \in SUBSET Values(receivers), dof \in Dofs, kalman_valid \in BOOLEAN :
          \E receivers_arg \in Orders(S), raises \in SUBSET S :
             ForwardResults(receivers_arg, dof, kalman_valid, raises)

SpecForward == Init /\ [][NextForward]_vars
\* ------------------------------------------------------- the state writer
\* The state writer's task from start() to close(): a receiver connects, the
\* attempts succeed or raise, time passes.  The event loop resumes the task
\* when its sleep has ended, and the clock does not stop before the end of
\* the run.
WriteStateAttempt ==
    \E receiver_states \in QuarantineStates :
       \/ ReallyWriteState(receiver_states)
       \/ \E raised_at \in {0, 1} : WriteStateRaises(receiver_states, raised_at)

\* the clock, for three sleeps of the state writer
WriterTick == now < StartTime + 3 * WRITE_STATE_INTERVAL /\ Tick(WRITE_STATE_INTERVAL)

NextWriter ==
    \/ NewReceiver(1, TRUE, 0)
    \/ WriteStateAttempt
    \/ Close
    \/ WriterTick

SpecWriter ==
    /\ Init /\ [][NextWriter]_vars
    /\ WF_vars(WriteStateAttempt)
    /\ WF_vars(WriterTick)
\* ------------------------------------------------- the traffic refresh
\* Interest updates of two receivers in one step of the event loop: the
\* handlers of several connections run before the callbacks they have
\* passed to call_soon, which then run in the order they were scheduled.
RefreshHandlers ==
    \/ \E u \in GraphUsers :
          /\ Cardinality({r \in RIDs : rcv[r].created}) < GraphReceivers
          /\ NewReceiver(u, TRUE, 0)
    \/ \E r \in RIDs : rcv[r].user = 2 /\ ReceiverDisconnect(r)
    \/ \E r \in RIDs, draws \in [ICAOs -> ForceDraws] :
          Room(GraphIcaos) /\ ReceiverTrackingAdd(r, GraphIcaos, draws)
    \/ \E r \in RIDs, report \in GraphReports : ReceiverRateReport(r, report)
    \/ now < StartTime + TrackingElapsed /\ Tick(1)

NextRefresh ==
    \/ RefreshHandlers
    \/ RefreshTrafficRequests

SpecRefresh == Init /\ [][NextRefresh]_vars
\* ------------------------------------------------------- the penalty
\* One receiver and the scorer, over dumps of few and of many peers: none,
\* one, two or six of them with a bad sync, some of them timed out.
PenaltyReports ==
    {PeerList(bad, 0, good, 0, out) : bad \in {0, 1, 2, 6}, good \in {0, 45}, out \in {0, 1}}

NextPenalty ==
    \/ NewReceiver(1, TRUE, 0)
    \/ \E peers \in PenaltyReports : ReallyWriteState([u \in {1} |-> peers])
    \/ Tick(WRITE_STATE_INTERVAL)

SpecPenalty == Init /\ [][NextPenalty]_vars
\* ------------------------------------------------------- the commit
\* Two receivers track up to three aircraft, in legacy and in rate-aware
\* mode, while three scorer passes take user 1 over bad_syncs = 2.
CommitIcaos == {1, 2, 3}
CommitReports == {[i \in CommitIcaos |-> 1]}
CommitElapsed == 2 * WRITE_STATE_INTERVAL

CommitHandlers ==
    \/ \E u \in GraphUsers :
          /\ Cardinality({r \in RIDs : rcv[r].created}) < GraphReceivers
          /\ NewReceiver(u, TRUE, 0)
    \/ \E r \in RIDs, S \in {CommitIcaos}, draws \in [ICAOs -> ForceDraws] :
          ReceiverTrackingAdd(r, S, draws)
    \/ \E r \in RIDs, report \in CommitReports : ReceiverRateReport(r, report)
    \/ ReallyWriteState([u \in {1} |-> PeerList(5, 5, 0, 0, 0)])
    \/ now < StartTime + CommitElapsed /\ Tick(WRITE_STATE_INTERVAL)

NextCommit ==
    \/ call_soon = <<>> /\ CommitHandlers
    \/ RefreshTrafficRequests

SpecCommit == Init /\ [][NextCommit]_vars
\* ------------------------------------------------------- the top-up
\* Two receivers take up one or two aircraft and send rate reports that name
\* none, one or both of them, with and without the other receiver as a peer.
TopUpReports == UNION {[S -> {1}] : S \in SUBSET TrackingIcaos}

TopUpHandlers ==
    \/ \E u \in GraphUsers :
          /\ Cardinality({r \in RIDs : rcv[r].created}) < GraphReceivers
          /\ NewReceiver(u, TRUE, 0)
    \/ \E r \in RIDs, S \in {{1}, TrackingIcaos}, draws \in [ICAOs -> ForceDraws] :
          Room(S) /\ ReceiverTrackingAdd(r, S, draws)
    \/ \E r \in RIDs, report \in TopUpReports : ReceiverRateReport(r, report)

NextTopUp ==
    \/ call_soon = <<>> /\ TopUpHandlers
    \/ RefreshTrafficRequests

SpecTopUp == Init /\ [][NextTopUp]_vars
\* ------------------------------------------------------- the release
\* One receiver is penalised, by the scorer with 1.0 (ten bad peers of ten)
\* or 0.5 (four of six) and by the clock tracker's jump reports, and the
\* passes over dumps without a bad peer take the score down again.
ReleaseStates ==
    {EmptyDict, [u \in {1} |-> PeerList(0, 0, 6, 0, 0)],
     [u \in {1} |-> PeerList(5, 5, 0, 0, 0)], [u \in {1} |-> PeerList(4, 0, 2, 0, 0)]}

NextRelease ==
    \/ NewReceiver(1, TRUE, 0)
    \/ \E receiver_states \in ReleaseStates : ReallyWriteState(receiver_states)
    \/ \E r \in RIDs : IncrementJumps(r, 1)
    \/ Tick(WRITE_STATE_INTERVAL)

SpecRelease == Init /\ [][NextRelease]_vars
\* ------------------------------------------------------- the state files
\* Three sleeps of the state writer: each pass writes the three files or
\* raises somewhere on the way, and close() may cancel the task.
NextFiles ==
    \/ ReallyWriteState(EmptyDict)
    \/ \E raised_at \in RaisePoints : WriteStateRaises(EmptyDict, raised_at)
    \/ Close
    \/ now < StartTime + 2 * WRITE_STATE_INTERVAL /\ Tick(WRITE_STATE_INTERVAL)

SpecFiles == Init /\ [][NextFiles]_vars
\* ------------------------------------------------------- reload signals
\* Callbacks register and deregister, from outside and from inside a
\* dispatch, and reload signals arrive while the loop has the handler.
SighupCallbacks == {1, 2, 3}

NextSighup ==
    \/ \E handler \in SighupCallbacks : AddSighupHandler(handler)
    \/ \E handler \in SighupCallbacks : RemoveSighupHandler(handler)
    \/ \E behaviour \in [SighupCallbacks -> CallbackBehaviours] : Sighup(behaviour)

SpecSighup == Init /\ [][NextSighup]_vars
\* ------------------------------------------------------------ properties
Live == Values(receivers)

\* C1: after every entry-point operation, for each of tracking,
\* sync_interest, mlat_interest and adsb_seen, an aircraft is in the set of a
\* receiver if and only if the receiver is in that set of the aircraft.
C1_BipartiteSymmetry ==
    \A r \in RIDs, a \in AIDs :
        /\ a \in rcv[r].tracking <=> r \in acs[a].tracking
        /\ a \in rcv[r].sync_interest <=> r \in acs[a].sync_interest
        /\ a \in rcv[r].mlat_interest <=> r \in acs[a].mlat_interest
        /\ a \in rcv[r].adsb_seen <=> r \in acs[a].adsb_seen

\* C2: a receiver that has been disconnected is in no aircraft's tracking,
\* sync_interest, mlat_interest or adsb_seen set.
C2_DisconnectPurges ==
    \A r \in RIDs : rcv[r].dead =>
        \A a \in AIDs : r \notin acs[a].tracking \cup acs[a].sync_interest
                                \cup acs[a].mlat_interest \cup acs[a].adsb_seen

\* C3: an aircraft is registered if and only if its tracking set is not
\* empty: every registered aircraft has a tracker, and every aircraft that a
\* receiver tracks, or that holds a tracker, is the one registered under its
\* ICAO address.
C3_RegisteredIffTracked ==
    /\ \A icao \in DOMAIN aircraft :
          acs[aircraft[icao]].icao = icao /\ acs[aircraft[icao]].tracking # {}
    /\ \A a \in AIDs : acs[a].tracking # {} => a \in Values(aircraft)
    /\ \A r \in Live : rcv[r].tracking \subseteq Values(aircraft)
    /\ \A a \in Values(aircraft) :
          acs[a].tracking = {r \in Live : a \in rcv[r].tracking}

\* user 1 has disconnected; of the two aircraft that were tracked, the one
\* user 2 tracks is still registered, the other is not
C3_Witness ==
    /\ ret.op = "receiver_disconnect" /\ ret.user = 1
    /\ DOMAIN aircraft = {1}
    /\ \E r \in Live : rcv[r].user = 2 /\ rcv[r].tracking = {aircraft[1]}
                         /\ rcv[r].requested = {aircraft[1]}

\* C4: after every new_receiver, receiver_location_update and
\* receiver_disconnect the distance maps of the live receivers form a
\* symmetric matrix with a zero diagonal whose keys are exactly the uids of
\* the live receivers, the receiver's own uid included.
C4_DistanceMatrix ==
    \A r \in Live, s \in Live :
        /\ DOMAIN rcv[r].distance = {rcv[x].uid : x \in Live}
        /\ rcv[r].distance[rcv[r].uid] = 0
        /\ rcv[r].distance[rcv[s].uid] = rcv[s].distance[rcv[r].uid]

\* no two live receivers share a uid or a user name, and the two indexes
\* hold the same receivers under their own uid and user name
UniqueLive ==
    /\ \A r, s \in Live \cup Values(usernames) :
          r # s => rcv[r].uid # rcv[s].uid /\ rcv[r].user # rcv[s].user
    /\ Values(usernames) = Live
    /\ \A uid \in DOMAIN receivers : rcv[receivers[uid]].uid = uid
    /\ \A user \in DOMAIN usernames : rcv[usernames[user]].user = user

\* C5: no two live receivers ever share a uid or a user name; new_receiver
\* fails as "already connected" exactly when the user name is that of a
\* connected receiver (so it does not after that receiver's disconnect), and
\* a uid it assigns is the uid of no receiver that was live at the call.
C5_UniqueUidAndUser ==
    [][/\ UniqueLive'
       /\ ret'.op = "new_receiver" =>
            /\ (ret'.user \in DOMAIN usernames)
                  <=> (ret'.result = "ValueError: already connected")
            /\ ret'.result = "ok" =>
                  /\ DOMAIN usernames' = DOMAIN usernames \cup {ret'.user}
                  /\ rcv'[usernames'[ret'.user]].uid \notin DOMAIN receivers
                  /\ DOMAIN receivers' = DOMAIN receivers
                                           \cup {rcv'[usernames'[ret'.user]].uid}]_vars

\* a user connects next to another receiver and gets a uid that an earlier,
\* since disconnected, receiver had
C5_Witness ==
    /\ ret.op = "new_receiver" /\ ret.result = "ok"
    /\ Cardinality(Live) >= 2
    /\ uid_log.reused

\* C6: the uids of successive successful new_receiver calls increase, and no
\* uid is assigned a second time before the counter has wrapped.
C6_MonotoneUids == ~uid_log.reused /\ ~uid_log.down

\* C7: a new_receiver that fails (user name connected, or the authenticator
\* raises) leaves the uid index, the user-name index and every existing
\* receiver, its distance map included, as they were.
C7_FailureKeepsState ==
    [][(ret'.op = "new_receiver" /\ ret'.result # "ok") =>
          /\ receivers' = receivers
          /\ usernames' = usernames
          /\ \A r \in Live : rcv'[r].distance = rcv[r].distance]_vars

\* the authenticator has turned a receiver away while another was connected
C7_Witness ==
    /\ ret.op = "new_receiver" /\ ret.result = "ValueError: authenticator"
    /\ Live # {}

\* C8: in every state every receiver has 0 <= bad_syncs <= 6 and
\* recent_clock_jumps >= 0, however scorer passes and incrementJumps calls
\* interleave.
C8_ScoreRange ==
    \A r \in Live :
       /\ ~float_less(rcv[r].bad_syncs, float_of_int(0))
       /\ ~float_less(float_of_int(6), rcv[r].bad_syncs)
       /\ rcv[r].recent_clock_jumps >= 0

\* C9: right after a scorer pass every live receiver has bad_syncs in
\* [0, 6], whatever the score was before and whatever the peers' states.
C9_ScoreLimitedAfterPass ==
    ret.op = "write_state" =>
       \A r \in Live : /\ ~float_less(rcv[r].bad_syncs, float_of_int(0))
                       /\ ~float_less(float_of_int(6), rcv[r].bad_syncs)

\* the first scorer pass has just run over a receiver that no jump was
\* reported for: its score was 0, the decay took it below, the limit acted
C9_Witness ==
    /\ ret.op = "write_state"
    /\ now = StartTime /\ write_state_at = StartTime + WRITE_STATE_INTERVAL
    /\ \E r \in Live : rcv[r].bad_syncs = float_of_int(0) /\ rcv[r].clock_reset_counter = 0

\* C10 as stated: in every state a receiver with bad_syncs > 0 has an empty
\* mlat_interest, however interest updates, scorer passes and incrementJumps
\* calls interleave.
C10_QuarantinedHasNoMlat ==
    \A r \in Live :
       float_less(float_of_int(0), rcv[r].bad_syncs) => rcv[r].mlat_interest = {}

\* the handler that has just returned ran update_interest for user u: a rate
\* report, or a tracking change of a receiver that has sent no rate report
InterestUpdated(u) ==
    /\ ret.user = u /\ ret.result = "ok"
    /\ \/ ret.op = "receiver_rate_report"
       \/ /\ ret.op \in {"receiver_tracking_add", "receiver_tracking_remove"}
          /\ ~rcv[usernames[u]].has_rate_report

\* C10 amended: right after an interest update of a receiver with
\* bad_syncs > 0 that receiver's mlat_interest is empty.
C10_QuarantinedAfterUpdate ==
    \A u \in DOMAIN usernames :
       (InterestUpdated(u) /\ float_less(float_of_int(0), rcv[usernames[u]].bad_syncs)) =>
          rcv[usernames[u]].mlat_interest = {}

\* an interest update has just emptied the MLAT set of a quarantined
\* receiver that tracks an aircraft MLAT is wanted for
C10_Witness ==
    \E u \in DOMAIN usernames :
       /\ InterestUpdated(u)
       /\ float_less(float_of_int(0), rcv[usernames[u]].bad_syncs)
       /\ rcv[usernames[u]].tracking \cap mlat_wanted # {}
       /\ rcv[usernames[u]].mlat_interest = {}

\* C11: the sync set the interest selector commits for a receiver, in legacy
\* mode and in rate-aware mode, has at most MAX_SYNC_AC aircraft.
C11_SyncSetLimited ==
    \A r \in Live : Cardinality(rcv[r].sync_interest) <= MAX_SYNC_AC

\* the registry of a world: the registered ICAO addresses and who tracks them
RegistryOf(w) ==
    [icaos |-> DOMAIN w.aircraft,
     tracking |-> UNION {{<<w.acs[a].icao, w.rcv[x].user>> : x \in w.acs[a].tracking} :
                            a \in Values(w.aircraft)}]
TrackedIcaos(w, r) == {w.acs[a].icao : a \in w.rcv[r].tracking}

\* Tracker.remove(r, S) right after the step that added S for r leaves the
\* registry and r.tracking as they were before the step
AddRemoveRestores(r, S) ==
    LET after == usernames'[rcv[r].user]
        w2 == remove(World', after, S)
    IN /\ RegistryOf(w2) = RegistryOf(World)
       /\ TrackedIcaos(w2, after) = TrackedIcaos(World, r)

\* C12 as stated: for any receiver r and any ICAO set S, add(r, S) followed
\* immediately by remove(r, S) leaves the registered ICAOs, every aircraft's
\* tracking set and r.tracking as they were before the add.
C12_AddRemoveRestores ==
    [][\A r \in RIDs, S \in SUBSET TrackingIcaos, draws \in [ICAOs -> ForceDraws] :
          ReceiverTrackingAdd(r, S, draws) => AddRemoveRestores(r, S)]_vars

\* C12 amended: the same for an ICAO set S of which r tracks no aircraft
\* before the add.
C12_AddRemoveRestoresNew ==
    [][\A r \in RIDs, S \in SUBSET TrackingIcaos, draws \in [ICAOs -> ForceDraws] :
          (/\ ret'.op = "receiver_tracking_add" /\ ret'.user = rcv[r].user
           /\ S \cap TrackedIcaos(World, r) = {}
           /\ ReceiverTrackingAdd(r, S, draws))
             => AddRemoveRestores(r, S)]_vars

\* a receiver has just added aircraft: one that another receiver tracks too
\* and one that it alone tracks (which the remove would take off the registry)
C12_Witness ==
    /\ ret.op = "receiver_tracking_add"
    /\ \E r \in Live :
          /\ rcv[r].user = ret.user
          /\ \E a \in rcv[r].tracking : acs[a].tracking = {r}
          /\ \E a \in rcv[r].tracking : acs[a].tracking # {r}

\* C13: for every partition count n >= 1 and every ICAO address,
\* in_local_partition is true for exactly one partition index of 1..n (for
\* index 1 when n = 1), and the answer is that of the inputs (icao, index, n).
C13_OnePartition ==
    ret.op = "in_local_partition" =>
       /\ Cardinality({k \in 1..ret.count :
                          in_local_partition(ret.icao, k - 1, ret.count)}) = 1
       /\ ret.result = (ret.index = CHOOSE k \in 1..ret.count :
                                       in_local_partition(ret.icao, k - 1, ret.count))
       /\ ret.count = 1 => ret.result

\* an address was found in a partition other than the first of several
C13_Witness ==
    /\ ret.op = "in_local_partition"
    /\ ret.count > 1 /\ ret.index > 1 /\ ret.result

\* the step ran the MLAT-wanted refresh (nothing else writes mlat_wanted_ts)
Refreshed == mlat_wanted_ts' # mlat_wanted_ts

\* after the step, aircraft a is in mlat_wanted and has do_mlat exactly if wanted
WantedIff(a, wanted) ==
    /\ a \in mlat_wanted' <=> wanted
    /\ acs'[a].do_mlat <=> wanted

\* C14 as stated: right after each MLAT-wanted refresh at time now, a
\* registered aircraft is in mlat_wanted, and has do_mlat, exactly if at least
\* two receivers track it, allow_mlat is set and (it has sent no ADS-B for
\* NO_ADSB_MLAT_SECONDS, or sync_bad_percent > 10, or the time since
\* last_force_mlat is in [FORCE_MLAT_INTERVAL - 15, FORCE_MLAT_INTERVAL + 15]).
C14_WantedInForceWindow ==
    [][Refreshed =>
          \A a \in Values(aircraft') :
             LET ac == acs'[a]
                 since_force == now' - ac.last_force_mlat
             IN WantedIff(a, /\ Cardinality(ac.tracking) >= 2
                             /\ ac.allow_mlat
                             /\ \/ now' - ac.last_adsb_time > NO_ADSB_MLAT_SECONDS
                                \/ ac.sync_bad_percent > 10
                                \/ /\ since_force >= FORCE_MLAT_INTERVAL - 15
                                   /\ since_force <= FORCE_MLAT_INTERVAL + 15)]_vars

\* C14 amended: the same with the third alternative "the time since
\* last_force_mlat is over FORCE_MLAT_INTERVAL - 15 and under
\* FORCE_MLAT_INTERVAL".
C14_WantedInForceHalfWindow ==
    [][Refreshed =>
          \A a \in Values(aircraft') :
             LET ac == acs'[a]
                 since_force == now' - ac.last_force_mlat
             IN WantedIff(a, /\ Cardinality(ac.tracking) >= 2
                             /\ ac.allow_mlat
                             /\ \/ now' - ac.last_adsb_time > NO_ADSB_MLAT_SECONDS
                                \/ ac.sync_bad_percent > 10
                                \/ /\ since_force > FORCE_MLAT_INTERVAL - 15
                                   /\ since_force < FORCE_MLAT_INTERVAL)]_vars

\* a refresh has just found MLAT wanted for an aircraft only because of the
\* time since its last_force_mlat
C14_Witness ==
    /\ mlat_wanted_ts = now
    /\ \E a \in mlat_wanted :
          /\ a \in Values(aircraft) /\ acs[a].do_mlat
          /\ now - acs[a].last_adsb_time <= NO_ADSB_MLAT_SECONDS
          /\ acs[a].sync_bad_percent = 0
          /\ now - acs[a].last_force_mlat > FORCE_MLAT_INTERVAL - 15
          /\ now - acs[a].last_force_mlat < FORCE_MLAT_INTERVAL

\* force_mlat and last_force_mlat of every aircraft that was registered
\* before a refresh, after it: since is the time since last_force_mlat at the
\* refresh, and from is where the window in which force_mlat is raised begins
ForceHysteresis(from) ==
    Refreshed =>
       \A icao \in (DOMAIN aircraft) \cap (DOMAIN aircraft') :
          LET since == now - acs[aircraft[icao]].last_force_mlat
              after == acs'[aircraft'[icao]]
          IN /\ (from[since] /\ since <= FORCE_MLAT_INTERVAL + 15) => after.force_mlat
             /\ since > FORCE_MLAT_INTERVAL + 15 =>
                   ~after.force_mlat /\ after.last_force_mlat >= now
             /\ (~from[since] /\ since <= FORCE_MLAT_INTERVAL + 15) => ~after.force_mlat

\* C20 as stated: over the refreshes of one aircraft, force_mlat is raised at
\* every refresh at which the time since last_force_mlat is in
\* [FORCE_MLAT_INTERVAL - 15, FORCE_MLAT_INTERVAL + 15]; at the first refresh
\* beyond, it is lowered and last_force_mlat is advanced to no earlier than
\* that refresh; it is not raised after a refresh before the window.
C20_ForceWindowClosed ==
    [][ForceHysteresis([since \in Int |-> since >= FORCE_MLAT_INTERVAL - 15])]_vars

\* C20 amended: the same for the window that begins after
\* FORCE_MLAT_INTERVAL - 15: at a refresh exactly FORCE_MLAT_INTERVAL - 15
\* after last_force_mlat, force_mlat is not raised yet.
C20_ForceWindowOpen ==
    [][ForceHysteresis([since \in Int |-> since > FORCE_MLAT_INTERVAL - 15])]_vars

\* a refresh beyond the window has lowered force_mlat and advanced last_force_mlat
C20_Witness ==
    /\ mlat_wanted_ts = now /\ now > StartTime
    /\ \E a \in Values(aircraft) : ~acs[a].force_mlat /\ acs[a].last_force_mlat = now

\* C15 as stated: every aircraft of the MLAT subset that the interest
\* selector has just committed for a receiver is tracked by the receiver, has
\* allow_mlat and is tracked by at least two receivers, also when the run fell
\* inside the throttle of the MLAT-wanted refresh.
C15_MlatSubsetTrackedByTwo ==
    \A u \in DOMAIN usernames :
       InterestUpdated(u) =>
          \A a \in rcv[usernames[u]].mlat_interest :
             /\ a \in rcv[usernames[u]].tracking
             /\ acs[a].allow_mlat
             /\ Cardinality(acs[a].tracking) >= 2

\* C15 amended: every aircraft of the committed MLAT subset is tracked by
\* the receiver, has allow_mlat and is in mlat_wanted as the last refresh
\* left it; it is tracked by at least two receivers if the run itself
\* refreshed mlat_wanted.
C15_MlatSubsetOfLastRefresh ==
    [][\A u \in DOMAIN usernames' :
          InterestUpdated(u)' =>
             \A a \in rcv'[usernames'[u]].mlat_interest :
                /\ a \in rcv'[usernames'[u]].tracking
                /\ a \in mlat_wanted'
                /\ acs'[a].allow_mlat
                /\ Refreshed => Cardinality(acs'[a].tracking) >= 2]_vars

\* an interest update has just committed a non-empty MLAT subset that does
\* not hold every aircraft MLAT is wanted for
C15_Witness ==
    \E u \in DOMAIN usernames :
       /\ InterestUpdated(u)
       /\ rcv[usernames[u]].mlat_interest # {}
       /\ rcv[usernames[u]].mlat_interest # mlat_wanted

\* the clock tracker's dump for user 1: 12 peers, none timed out, 6 of them
\* with an offset over the threshold
TwelvePeers == [u \in {1} |-> PeerList(6, 0, 6, 0, 0)]

\* a scorer pass over that dump adds gain to the bad_syncs of
\* user 1, before the limit
TwelvePeersGain(gain) ==
    ReallyWriteState(TwelvePeers) =>
       \A r \in Live :
          rcv[r].user = 1 =>
             rcv'[r].bad_syncs = limit_bad_syncs(float_add(rcv[r].bad_syncs, gain))

\* C16 as stated: in a scorer pass for a receiver with 12 peers, none of them
\* quarantined, 6 of them over the offset threshold, bad_syncs increases by
\* 1.0 before the limit to [0, 6].
C16_TwelvePeersGainOne == [][TwelvePeersGain(float_of_int(1))]_vars

\* C16 amended: bad_syncs increases by min(1, 2 * 6 / 22) = 6/11, the ten
\* extra peers counted in num_peers.
C16_TwelvePeersGainSixElevenths == [][TwelvePeersGain(float_div(6, 11))]_vars

\* a scorer pass has raised a score of 0 to 6/11
C16_Witness ==
    /\ ret.op = "write_state"
    /\ \E r \in Live : rcv[r].user = 1 /\ rcv[r].bad_syncs = float_div(6, 11)

\* C17: forward_results calls report_mlat_position exactly once for every
\* receiver of the contributing set, those after a receiver whose report
\* raised included, and passes no such exception on; with kalman_state
\* invalid and dof < 1 it calls it for no receiver.
C17_EveryReceiverReportedOnce ==
    ret.op = "forward_results" =>
       /\ ret.result = "ok"
       /\ IF ~ret.kalman_valid /\ ret.dof < 1
          THEN ret.reported = <<>>
          ELSE /\ \A i \in DOMAIN ret.receivers :
                     Cardinality({j \in DOMAIN ret.reported :
                                     ret.reported[j] = ret.receivers[i]}) = 1
               /\ Len(ret.reported) = Len(ret.receivers)

\* a result was forwarded to a receiver after the report to another raised
C17_Witness ==
    /\ ret.op = "forward_results"
    /\ \E i, j \in DOMAIN ret.reported :
          i < j /\ ret.reported[i] \in ret.raised /\ ret.reported[j] \notin ret.raised

\* the times at which the state writer's sleep may end
SleepEnds == {StartTime + k * WRITE_STATE_INTERVAL : k \in 0..(MaxElapsed \div WRITE_STATE_INTERVAL)}

\* a step of the state writer's task: an attempt, raising or not, leaves it
\* running with the next attempt due after the sleep; only close() ends it;
\* cancelled, it makes no attempt
WriterStep ==
    /\ (ret'.op = "write_state" /\ now' = now) =>
          write_state_task' = "running" /\ write_state_at' = now + WRITE_STATE_INTERVAL
    /\ write_state_task' # write_state_task =>
          ret'.op = "close" /\ write_state_task' = "cancelled"
    /\ write_state_task = "cancelled" =>
          write_state_task' = "cancelled" /\ write_state_at' = write_state_at

\* C18: the state writer attempts a write whenever its sleep has ended; an
\* attempt that raises leaves the task running, the next one due after the
\* sleep of WRITE_STATE_INTERVAL; only close() ends the task, and no attempt
\* follows it.
C18_WriterKeepsTrying ==
    /\ \A t \in SleepEnds :
          (write_state_task = "running" /\ write_state_at = t /\ now >= t)
             ~> (write_state_at > t \/ write_state_task = "cancelled")
    /\ [][WriterStep]_vars

\* an attempt after the first has raised, and the task sleeps towards the next
C18_Witness ==
    /\ ret.op = "write_state" /\ ret.result = "Exception logged"
    /\ now > StartTime
    /\ write_state_task = "running" /\ write_state_at = now + WRITE_STATE_INTERVAL

\* the receivers whose refresh_traffic_requests is pending, oldest first, each
\* named by what stays the same when the cells are renumbered
Scheduled ==
    [i \in DOMAIN call_soon |->
        <<rcv[call_soon[i]].uid, rcv[call_soon[i]].user, rcv[call_soon[i]].dead>>]

\* the step is a handler that runs update_interest for the receiver r
RunsUpdateInterest(r) ==
    \/ /\ ret'.op = "receiver_rate_report" /\ ret'.user = rcv[r].user
       /\ \E report \in GraphReports : ReceiverRateReport(r, report)
    \/ /\ ret'.op = "receiver_tracking_add" /\ ret'.user = rcv[r].user
       /\ ~rcv[r].has_rate_report
       /\ \E draws \in [ICAOs -> ForceDraws] : ReceiverTrackingAdd(r, GraphIcaos, draws)

\* a run of update_interest appends one callback, for its receiver, and
\* nothing else lengthens the queue
RefreshScheduled ==
    /\ \A r \in RIDs :
          RunsUpdateInterest(r) =>
             Scheduled' = Append(Scheduled, <<rcv[r].uid, rcv[r].user, FALSE>>)
    /\ Len(call_soon') > Len(call_soon) =>
          /\ Len(call_soon') = Len(call_soon) + 1
          /\ \E r \in RIDs : RunsUpdateInterest(r)

\* C19: every run of update_interest schedules exactly one
\* refresh_traffic_requests for its receiver, and when no scheduled refresh
\* is pending every live receiver's requested set is sync_interest \cup
\* mlat_interest and the connection's last request_traffic carried exactly
\* the ICAO addresses of that set.
C19_RefreshFollowsInterest ==
    /\ [][RefreshScheduled]_vars
    /\ [](call_soon = <<>> =>
            \A r \in Live :
               /\ rcv[r].requested = rcv[r].sync_interest \cup rcv[r].mlat_interest
               /\ rcv[r].request_traffic = icao_set(World, rcv[r].requested))

\* the last of the scheduled refreshes has run, and two live receivers have
\* been asked for the traffic of an aircraft, one of them for MLAT
C19_Witness ==
    /\ ret.op = "refresh_traffic_requests" /\ call_soon = <<>>
    /\ \E r1, r2 \in Live :
          /\ r1 # r2
          /\ rcv[r1].request_traffic # {} /\ rcv[r2].request_traffic # {}
          /\ rcv[r1].mlat_interest # {}
          /\ rcv[r2].sync_interest # {}

\* the times x is in the list l
Count(l, x) == Cardinality({k \in DOMAIN l : l[k] = x})

\* the loop has the SIGHUP handler exactly while a callback is registered
SignalInstalledIffRegistered ==
    ("SIGHUP" \in signal_handlers) <=> (sighup_handlers # <<>>)

TargetsWhole(fs) ==
    \A i \in DOMAIN StateFiles :
       target(StateFiles[i]) \in DOMAIN fs =>
          /\ fs[target(StateFiles[i])].complete
          /\ fs[target(StateFiles[i])].document = StateFiles[i]

\* C22: at every instant, between the file-system steps of a pass that
\* succeeds or raises and after the task is cancelled too, each of sync.json,
\* locations.json and aircraft.json is absent or holds one complete document
\* of a single dump pass.
C22_TargetsWhole ==
    /\ [](TargetsWhole(files))
    /\ [][(ret'.op = "write_state" /\ now' = now) =>
             \A n \in 0..ret'.steps : TargetsWhole(dump_files(files, now, n))]_vars

\* a pass has raised in the dump of locations.json: the temp file holds a
\* part of it, sync.json is of this pass and locations.json of the pass before
C22_Witness ==
    /\ ret.op = "write_state" /\ ret.result = "Exception logged"
    /\ tmpfile("locations.json", now) \in DOMAIN files
    /\ ~files[tmpfile("locations.json", now)].complete
    /\ target("sync.json") \in DOMAIN files /\ files[target("sync.json")].pass = now
    /\ target("locations.json") \in DOMAIN files
    /\ files[target("locations.json")].pass < now

\* the peers of a dump whose state has bad_syncs = 0, and those of them with
\* a bad sync: (pair_sync_count > 5 and offset > 1.5) or offset > 4, the
\* offsets in half microseconds
CountedPeers(peers) == {i \in DOMAIN peers : peers[i][4] = 0}
BadSyncPeers(peers) ==
    {i \in CountedPeers(peers) : (peers[i][1] > 5 /\ peers[i][2] > 3) \/ peers[i][2] > 8}

\* a scorer pass over peers penalises when bad_peers > 5 or
\* bad_peers / num_peers > 0.1, by min(1, 2 * bad_peers / num_peers)
Penalised(peers) ==
    LET bad == Cardinality(BadSyncPeers(peers))
        num == 10 + Cardinality(CountedPeers(peers))
    IN bad > 5 \/ float_less(float_div(1, 10), float_div(bad, num))
Penalty(peers) ==
    LET bad == Cardinality(BadSyncPeers(peers))
        num == 10 + Cardinality(CountedPeers(peers))
    IN float_min(float_of_int(1), float_div(2 * bad, num))

\* the pass over peers changes the score of user 1 by the penalty or by the
\* decay of 0.1, before the limit; it does not penalise for one bad peer or
\* none, and a penalty is between 0.2 and 1
PenaltyApplied(peers) ==
    ReallyWriteState([u \in {1} |-> peers]) =>
       /\ \A r \in Live :
             rcv[r].user = 1 =>
                rcv'[r].bad_syncs =
                   limit_bad_syncs(IF Penalised(peers)
                                   THEN float_add(rcv[r].bad_syncs, Penalty(peers))
                                   ELSE float_sub(rcv[r].bad_syncs, float_div(1, 10)))
       /\ Cardinality(BadSyncPeers(peers)) <= 1 => ~Penalised(peers)
       /\ Penalised(peers) =>
             /\ ~float_less(Penalty(peers), float_div(2, 10))
             /\ ~float_less(float_of_int(1), Penalty(peers))

\* C23: a scorer pass adds min(1, 2 * bad_peers / num_peers) to bad_syncs if
\* bad_peers > 5 or bad_peers / num_peers > 0.1 and subtracts 0.1
\* otherwise, num_peers being 10 + the peers with bad_syncs = 0; a receiver
\* with at most one bad peer is not penalised, and every penalty is between
\* 0.2 and 1.
C23_PenaltyBetweenFifthAndOne ==
    [][\A peers \in PenaltyReports : PenaltyApplied(peers)]_vars

\* the magnitude a times the small number n
mag_times(a, n) ==
    LET l == a[3] * n
        m == a[2] * n + l \div Limb
    IN <<a[1] * n + m \div Limb, m % Limb, l % Limb>>

\* the least whole number of passes that is not below 10 * s
TenTimes(s) ==
    CHOOSE k \in 0..80 :
       /\ ~mag_less(float_of_int(k).mag, mag_times(s.mag, 10))
       /\ k = 0 \/ mag_less(float_of_int(k - 1).mag, mag_times(s.mag, 10))

\* the score after k passes without a bad peer
RECURSIVE GoodPasses(_, _)
GoodPasses(s, k) ==
    IF k = 0 THEN s
    ELSE CHOOSE after \in {limit_bad_syncs(scored_bad_syncs(before, <<>>)) :
                              before \in {GoodPasses(s, k - 1)}} : TRUE

\* a pass over a dump without a bad peer is one such pass
GoodPassStep ==
    \A receiver_states \in {EmptyDict, [u \in {1} |-> PeerList(0, 0, 6, 0, 0)]} :
       ReallyWriteState(receiver_states) =>
          \A r \in Live : rcv'[r].bad_syncs = GoodPasses(rcv[r].bad_syncs, 1)

\* C24: a receiver with bad_syncs = s, 0 < s <= 6, has bad_syncs = 0 after
\* at most 10 * s consecutive passes without a bad peer and without a jump
\* penalty (10 passes from 1.0), and bad_syncs stays 0 in the good passes
\* after that.
C24_ReleasedAfterTenTimesScore ==
    /\ [](\A r \in Live :
             LET s == rcv[r].bad_syncs
             IN (float_less(float_of_int(0), s) /\ ~float_less(float_of_int(6), s)) =>
                   /\ GoodPasses(s, TenTimes(s)) = float_of_int(0)
                   /\ GoodPasses(float_of_int(0), 1) = float_of_int(0))
    /\ [][GoodPassStep]_vars

\* the sync sets the selector of update_interest may hand to the commit for
\* receiver r in the world w1 the handler has prepared
SelectedSync(w1, r) ==
    LET w == refresh_mlat_wanted(w1, now)
    IN IF w.rcv[r].has_rate_report THEN rate_aware_sync(w, r) ELSE legacy_sync(w.rcv[r].tracking)

\* the step has committed, for receiver r, one of the selected sets as the
\* claim has it: a draw of round(MAX_SYNC_AC / 4) aircraft or the set itself
CommittedSync(w1, r) ==
    \E new_sync \in SelectedSync(w1, r) :
       IF float_less(float_of_int(2), rcv[r].bad_syncs) /\ 4 * Cardinality(new_sync) > MAX_SYNC_AC
       THEN /\ rcv'[r].sync_interest \subseteq new_sync
            /\ Cardinality(rcv'[r].sync_interest) = Round(MAX_SYNC_AC, 4)
       ELSE rcv'[r].sync_interest = new_sync

\* C25: when update_interest_sets commits for a receiver with bad_syncs > 2
\* and the selected sync set has more than MAX_SYNC_AC / 4 aircraft, the
\* committed sync_interest is a subset of the selected set with exactly
\* round(MAX_SYNC_AC / 4) aircraft; otherwise it is the selected set.
C25_QuarantinedSyncSampled ==
    [][/\ \A r \in Live, S \in {CommitIcaos}, draws \in [ICAOs -> ForceDraws] :
             (/\ ret'.op = "receiver_tracking_add" /\ ret'.user = rcv[r].user
              /\ ~rcv[r].has_rate_report
              /\ ReceiverTrackingAdd(r, S, draws)) =>
                CommittedSync(add(World, r, S, draws), r)
       /\ \A r \in Live, report \in CommitReports :
             (/\ ret'.op = "receiver_rate_report" /\ ret'.user = rcv[r].user
              /\ ReceiverRateReport(r, report)) =>
                CommittedSync([World EXCEPT !.rcv[r].has_rate_report = TRUE,
                                            !.rcv[r].last_rate_report = report], r)]_vars

\* an interest update has just left a receiver with bad_syncs > 2 that
\* tracks three aircraft with one of them in its sync set
C25_Witness ==
    \E u \in DOMAIN usernames :
       /\ InterestUpdated(u)
       /\ float_less(float_of_int(2), rcv[usernames[u]].bad_syncs)
       /\ Cardinality(rcv[usernames[u]].tracking) = 3
       /\ Cardinality(rcv[usernames[u]].sync_interest) = Round(MAX_SYNC_AC, 4)

\* the selected set meets the floor, with the aircraft of the rate report
\* taken before those of the tracking set
MeetsFloor(new_sync, keys, tracking) ==
    LET floor == MAX_SYNC_AC \div 4
    IN /\ Cardinality(new_sync) >= Min({floor, Cardinality(keys \cup tracking)})
       /\ Cardinality(new_sync \cap keys) >= Min({floor, Cardinality(keys)})

\* C26: in rate-aware mode the sync set the selector hands to the commit has
\* at least min(int(MAX_SYNC_AC / 4), |K + receiver.tracking|) aircraft, K
\* the registered aircraft of the rate report; the top-up takes aircraft of
\* K before aircraft of receiver.tracking.
C26_SelectionMeetsFloor ==
    [][\A r \in Live, report \in TopUpReports :
          (/\ ret'.op = "receiver_rate_report" /\ ret'.user = rcv[r].user
           /\ ReceiverRateReport(r, report)) =>
             LET w1 == [World EXCEPT !.rcv[r].has_rate_report = TRUE,
                                     !.rcv[r].last_rate_report = report]
             IN /\ rcv'[r].sync_interest \in SelectedSync(w1, r)
                /\ \A new_sync \in SelectedSync(w1, r) :
                      MeetsFloor(new_sync, rate_report_set(w1, r), rcv[r].tracking)]_vars

\* a rate report that names no aircraft has just left a receiver, alone on
\* its aircraft, with a sync set drawn from its tracking set
C26_Witness ==
    \E r \in Live :
       /\ ret.op = "receiver_rate_report" /\ ret.user = rcv[r].user
       /\ rcv[r].last_rate_report = EmptyDict
       /\ Cardinality(rcv[r].tracking) = 2
       /\ Cardinality(rcv[r].sync_interest) = MAX_SYNC_AC \div 4
       /\ \A a \in rcv[r].tracking : acs[a].tracking = {r}

\* C27: in every state every aircraft in a live receiver's sync_interest,
\* mlat_interest, adsb_seen or requested set is in that receiver's tracking
\* set and is present in the aircraft registry; no interest in an aircraft
\* survives the receiver's receiver_tracking_remove of it or the aircraft's
\* deletion from the registry.
C27_InterestsTrackedAndRegistered ==
    \A r \in Live :
       \A a \in rcv[r].sync_interest \cup rcv[r].mlat_interest
                 \cup rcv[r].adsb_seen \cup rcv[r].requested :
          /\ a \in rcv[r].tracking
          /\ \E icao \in DOMAIN aircraft : aircraft[icao] = a

\* C28: no traffic request is sent for a receiver after its
\* receiver_disconnect: however interest updates, disconnects and the event
\* loop's deferred callbacks interleave, a refresh_traffic_requests that runs
\* never calls connection.request_traffic for a receiver that is dead.
C28_NoRequestAfterDisconnect ==
    [][(call_soon # <<>> /\ RefreshTrafficRequests) => ~rcv[Head(call_soon)].dead]_vars
====
